---------------------------- MODULE Spec2Model ----------------------------
(***************************************************************************)
(* A model of the tuning loop of BrokerTune: MosquittoBrokerEnv.reset and  *)
(* MosquittoBrokerEnv.step (environment/broker.py) with the collaborators  *)
(* they call: the knob space (environment/knobs.py), knob application, the *)
(* metrics sampler (environment/utils.py) and the workload supervisor      *)
(* (script/workload.py).                                                   *)
(*                                                                         *)
(* Units.  An action coordinate is held in thousandths (0..1000 for        *)
(* 0.0..1.0).  A normalised client count is held in thousandths, a         *)
(* normalised throughput in hundredths, a latency in milliseconds.  Of the *)
(* ten observation components the model keeps [0] clients, [1] throughput  *)
(* and [5] p50 latency.  Of the eleven knobs the model keeps               *)
(* max_inflight_messages; the other ten coordinates of every action are    *)
(* taken to encode their defaults.  The sliding windows _throughput_history *)
(* and _latency_history feed only _compute_reward, whose value is left     *)
(* open here, and are not part of the state.                               *)
(***************************************************************************)
EXTENDS Integers, Sequences, FiniteSets, TLC

---------------------------------------------------------------------------
(* Bounds of the model *)

\* cfg.max_steps (200 by default), scaled down
MaxSteps == 2
\* cfg.baseline_max_attempts (5 by default), scaled down
BaselineMaxAttempts == 2
\* Step is not taken once the step counter has reached this value
MaxStepCount == 3
\* a step that would apply knobs is not taken once restart_count is here
MaxRestartCount == 1
\* the workload supervisor launches at most this many generations of processes
MaxGenerations == 2

\* passes of the readiness loop before broker_restart_stable_sec has elapsed
MaxReadyChecks == 2

\* the sampler is followed for this many seconds
MaxClock == 10
\* the broker restarts on its own account at most this many times
MaxBrokerRestarts == 1
\* one sample call is followed for this many seconds
MaxWindowClock == 24
\* and the client thread handles at most this many messages meanwhile
MaxMessages == 4
\* an episode has at most this many steps
MaxEpisodeSteps == 6
\* the knob grid is followed up to this multiple of the step
MaxGridPoint == 12
\* the environment builds samplers while fewer than this many exist
MaxSamplers == 3

---------------------------------------------------------------------------
(* Program constants *)

ActionDim == 11
MaxConsecutiveFailures == 3
FailedStepPenalty == -3
BaselineMinThroughput == 5
BaselineMinClientsNorm == 1
LatencyFallbackP50Ms == 20
MaxRetries == 3
ApplyDefaultOnReset == TRUE
\* MQTTConfig.rate_min_interval_sec and rate_min_samples
RateMinIntervalSec == 5
RateMinSamples == 2

\* Optional[...] values: None is the empty sequence, a present value x is <<x>>
None == << >>
Some(x) == << x >>

Max(a, b) == IF a >= b THEN a ELSE b
Min(a, b) == IF a <= b THEN a ELSE b

---------------------------------------------------------------------------
(* Knob space (environment/knobs.py) *)

\* Python's round() on n/d for n >= 0, d > 0: ties go to the even integer
RoundHalfEven(n, d) ==
    LET q == n \div d
        r == n % d
    IN  IF 2 * r < d THEN q
        ELSE IF 2 * r > d THEN q + 1
        ELSE IF q % 2 = 0 THEN q ELSE q + 1

\* How the installed NumPy treats the Python float in `v < zero_eps / 2.0`,
\* v being an np.float32 scalar (the repository pins no NumPy version):
\* "legacy" (NumPy 1.x) compares in float64, "weak" (NumPy 2, NEP 50) rounds
\* the Python float to float32 first.
NumpyPromotion == {"legacy", "weak"}

\* v < zero_eps / 2.0, v in thousandths: zero_eps / 2 is 5 thousandths, and
\* the float32 nearest to 0.005 is 0.004999999888, below the float64 0.005
\* and equal to the float32 0.005
below_half_zero_eps(v, promotion) ==
    v < 5 \/ (v = 5 /\ promotion = "legacy")

\* v in thousandths; int(round(low + v * (high - low))), the product taken in
\* two parts so that it stays inside 32 bits
interp_with_zero(v, low, high, promotion) ==
    IF below_half_zero_eps(v, promotion) THEN 0
    ELSE LET width == high - low
             n     == v * (width % 1000)
             whole == low + v * (width \div 1000) + n \div 1000
             r     == n % 1000
         IN  IF 2 * r < 1000 THEN whole
             ELSE IF 2 * r > 1000 THEN whole + 1
             ELSE IF whole % 2 = 0 THEN whole ELSE whole + 1

\* a variant of the quantization that clamps and does not snap to the step
quantize_clamp_only(value, step, low, high) ==
    IF value = 0 THEN 0 ELSE Min(Max(value, low), high)

quantize(value, step, low, high) ==
    IF value = 0 THEN 0
    ELSE IF step <= 1 THEN Min(Max(value, low), high)
    ELSE LET q0 == RoundHalfEven(value, step) * step
             quantized == IF q0 = 0 THEN step ELSE q0
         IN  Min(Max(quantized, IF low > 0 THEN low ELSE step), high)

\* the declared ranges and quantization steps of the integer knobs, in
\* bytes, messages or seconds; memory_limit alone is held in KiB (its 4 GiB
\* does not fit 32 bits; range and step are whole KiB and the decoded value
\* is the same multiple of the step in either unit)
BrokerKnobSpace ==
    [max_inflight_messages |-> [low |-> 0, high |-> 2000, step |-> 10],
     max_inflight_bytes    |-> [low |-> 0, high |-> 64 * 1024 * 1024,
                                step |-> 256 * 1024],
     max_queued_messages   |-> [low |-> 0, high |-> 20000, step |-> 100],
     max_queued_bytes      |-> [low |-> 0, high |-> 128 * 1024 * 1024,
                                step |-> 1024 * 1024],
     memory_limit          |-> [low |-> 0, high |-> 4 * 1024 * 1024,
                                step |-> 64 * 1024],
     autosave_interval     |-> [low |-> 0, high |-> 3600, step |-> 60],
     max_packet_size       |-> [low |-> 0, high |-> 10 * 1024 * 1024,
                                step |-> 1024],
     message_size_limit    |-> [low |-> 0, high |-> 10 * 1024 * 1024,
                                step |-> 1024]]

IntKnobs == DOMAIN BrokerKnobSpace
BoolKnobs == {"queue_qos0_messages", "persistence", "set_tcp_nodelay"}

\* the DEFAULT_* fields, all eleven knobs
DefaultKnobs ==
    [max_inflight_messages |-> 20, max_inflight_bytes |-> 0,
     max_queued_messages |-> 1000, max_queued_bytes |-> 0,
     queue_qos0_messages |-> FALSE, memory_limit |-> 0,
     persistence |-> FALSE, autosave_interval |-> 1800,
     set_tcp_nodelay |-> FALSE, max_packet_size |-> 0,
     message_size_limit |-> 0]

\* the knob the tuning loop of this model keeps
get_default_knobs ==
    [max_inflight_messages |-> DefaultKnobs.max_inflight_messages]

\* _encode_with_zero, the result stored in a float32 array and held here in
\* thousandths (exact for the values it is applied to)
encode_with_zero(value, low, high) ==
    IF value = 0 THEN 5
    ELSE IF high = low THEN 500
    ELSE ((value - low) * 1000) \div (high - low)

\* one coordinate of encode_knobs, then np.clip(action, 0.0, 1.0)
encode_knob(k, range, value) ==
    LET a == IF k \in BoolKnobs THEN (IF value THEN 1000 ELSE 0)
             ELSE encode_with_zero(value, range.low, range.high)
    IN  Min(Max(a, 0), 1000)

\* the raw value of one integer knob in decode_action: _interp_with_zero
interp_knob(range, v, promotion) ==
    interp_with_zero(v, range.low, range.high, promotion)

\* a variant of the packet-size rule that leaves small values alone
packet_size_unpromoted(raw) == raw

\* the special rule of max_packet_size, applied to the quantized value
packet_size_minimum(raw) == IF raw > 0 /\ raw < 20 THEN 20 ELSE raw

\* one entry of the KnobDict decode_action returns, from the clipped
\* coordinate v
decode_knob(k, range, v, promotion) ==
    IF k \in BoolKnobs THEN v >= 500
    ELSE LET q == quantize(interp_knob(range, v, promotion), range.step,
                           range.low, range.high)
         IN  IF k = "max_packet_size" THEN packet_size_minimum(q) ELSE q

\* np.clip(action, low, high) with low, high of shape (ActionDim,): numpy
\* broadcasts the trailing dimension, and raises when it is neither
\* ActionDim nor 1
clip_action(shape) ==
    IF Len(shape) = 0 THEN [ok |-> TRUE, shape |-> << ActionDim >>]
    ELSE LET d == shape[Len(shape)]
         IN  IF d = ActionDim \/ d = 1
             THEN [ok |-> TRUE, shape |-> [shape EXCEPT ![Len(shape)] = ActionDim]]
             ELSE [ok |-> FALSE, shape |-> shape]

\* the dimension check of decode_action: action.shape[0] != action_dim raises
shape_matches(shape) == shape[1] = ActionDim

\* None when decode_action raises, else the KnobDict
decode_action(shape, coord, promotion) ==
    IF ~shape_matches(shape) THEN None
    ELSE Some([max_inflight_messages |->
                 decode_knob("max_inflight_messages",
                             BrokerKnobSpace.max_inflight_messages,
                             coord, promotion)])

---------------------------------------------------------------------------
(* Reward (MosquittoBrokerEnv._compute_reward)                              *)
(*                                                                         *)
(* Units.  Throughput and latency are component [1] and [5] of an          *)
(* observation, both normalised and held in hundredths.  A relative delta  *)
(* and its squashed value are held in thousandths, a weight in hundredths, *)
(* a reward in units of 0.00001.                                           *)

\* EnvConfig as declared, and the weights of tests/test_env_reward.py
DefaultRewardConfig ==
    [reward_scale |-> 5, reward_weight_base |-> 80, reward_weight_step |-> 20,
     reward_weight_latency_base |-> 20, reward_weight_latency_step |-> 10,
     reward_clip |-> 500000, reward_delta_clip |-> 2000,
     reward_use_tanh |-> TRUE, reward_latency_floor_norm |-> 1]

RewardConfigs ==
    { DefaultRewardConfig,
      [DefaultRewardConfig EXCEPT !.reward_use_tanh = FALSE],
      [DefaultRewardConfig EXCEPT !.reward_weight_base = 60,
                                  !.reward_weight_latency_base = 15,
                                  !.reward_weight_latency_step = 5] }

\* 1000 * tanh(k / 10) to the nearest integer, k = 0 .. 42
TanhTable ==
    << 0, 100, 197, 291, 380, 462, 537, 604, 664, 716, 762, 800, 834, 862,
       885, 905, 922, 935, 947, 956, 964, 970, 976, 980, 984, 987, 989, 991,
       993, 994, 995, 996, 997, 997, 998, 998, 999, 999, 999, 999, 999, 999,
       1000 >>

\* np.tanh on thousandths: the table, interpolated linearly between its
\* points, 1 from 4.2 on, odd
tanh(x) ==
    LET a == IF x < 0 THEN -x ELSE x
        t == IF a >= 4200 THEN 1000
             ELSE LET k == a \div 100
                      f == a % 100
                  IN  TanhTable[k + 1]
                      + ((TanhTable[k + 2] - TanhTable[k + 1]) * f) \div 100
    IN  IF x < 0 THEN -t ELSE t

clip(x, lo, hi) == Min(Max(x, lo), hi)

\* num / den in thousandths, den > 0, rounded towards zero
relative(num, den) ==
    IF num >= 0 THEN (num * 1000) \div den
    ELSE -(((-num) * 1000) \div den)

\* sum of field f over a history
RECURSIVE total(_, _)
total(history, f) ==
    IF history = << >> THEN 0
    ELSE history[1][f] + total(Tail(history), f)

\* (avg - initial) / initial, avg the mean of the history
delta_throughput_base(initial, history, denom_floor) ==
    IF initial < denom_floor THEN 0
    ELSE relative(total(history, "throughput") - Len(history) * initial,
                  Len(history) * initial)

\* a variant that measures the fall of the throughput
delta_throughput_fall(current, prev, denom_floor) ==
    relative(prev - current, Max(prev, denom_floor))

delta_throughput_step(current, prev, denom_floor) ==
    relative(current - prev, Max(prev, denom_floor))

delta_latency_base(initial, history, latency_floor) ==
    IF initial < latency_floor THEN 0
    ELSE relative(Len(history) * initial - total(history, "latency"),
                  Len(history) * initial)

\* a variant that measures the rise of the latency
delta_latency_rise(current, prev, latency_floor) ==
    relative(current - prev, Max(prev, latency_floor))

delta_latency_step(current, prev, latency_floor) ==
    relative(prev - current, Max(prev, latency_floor))

squash(c, delta) ==
    IF c.reward_use_tanh THEN tanh(delta)
    ELSE clip(delta, -c.reward_delta_clip, c.reward_delta_clip)

\* _compute_reward: c the EnvConfig, initial the optional _initial_state,
\* prev the optional prev_state, next the next_state, history the two
\* sliding windows (the caller has appended the sample of next to them).
\* Returns _last_reward_components.
compute_reward(c, initial, prev, next, history) ==
    LET denom_floor   == BaselineMinThroughput
        latency_floor == c.reward_latency_floor_norm
        p      == IF prev # None THEN prev[1] ELSE next
        i      == IF initial # None THEN initial[1] ELSE next
        h      == IF history # << >> THEN history ELSE << next >>
        tb     == squash(c, delta_throughput_base(i.throughput, h, denom_floor))
        ts     == squash(c, delta_throughput_step(next.throughput,
                                                  p.throughput, denom_floor))
        lb     == squash(c, delta_latency_base(i.latency, h, latency_floor))
        ls     == squash(c, delta_latency_step(next.latency, p.latency,
                                               latency_floor))
        reward == c.reward_scale * ( c.reward_weight_base * tb
                                   + c.reward_weight_step * ts
                                   + c.reward_weight_latency_base * lb
                                   + c.reward_weight_latency_step * ls )
    IN  [throughput_base |-> tb, throughput_step |-> ts,
         latency_base |-> lb, latency_step |-> ls,
         reward |-> clip(reward, -c.reward_clip, c.reward_clip)]

---------------------------------------------------------------------------
(* Workload supervisor (script/workload.py, WorkloadManager)                *)
(*                                                                         *)
(* A supervisor w is the pair of the WorkloadManager object, wm, and the   *)
(* child processes it has launched so far, children, a sequence indexed by *)
(* process id.  A generation is the set of processes one call of start     *)
(* launched.                                                               *)

\* two configurations: publishers and subscribers on topic "a", publishers
\* alone on topic "b"
WorkloadConfigs ==
    { [topic |-> "a", num_subscribers |-> 100, num_publishers |-> 100],
      [topic |-> "b", num_subscribers |-> 0, num_publishers |-> 100] }

\* WorkloadManager.__init__
NewWorkloadManager ==
    [processes |-> << >>, is_running |-> FALSE, last_config |-> None]

Range(seq) == { seq[j] : j \in DOMAIN seq }

\* killpg of every listed process, then wait
kill(children, pids) ==
    [p \in DOMAIN children |->
        IF p \in pids THEN [children[p] EXCEPT !.alive = FALSE]
        ELSE children[p]]

\* a variant of stop that also forgets the saved configuration
stop_and_forget(w) ==
    IF ~w.wm.is_running THEN w
    ELSE [wm |-> [w.wm EXCEPT !.processes = << >>, !.is_running = FALSE,
                              !.last_config = None],
          children |-> kill(w.children, Range(w.wm.processes))]

stop(w) ==
    IF ~w.wm.is_running THEN w
    ELSE [wm |-> [w.wm EXCEPT !.processes = << >>, !.is_running = FALSE],
          children |-> kill(w.children, Range(w.wm.processes))]

\* is_running: the supervisor afterwards and the value returned
is_running(w) ==
    IF ~w.wm.is_running THEN [w |-> w, value |-> FALSE]
    ELSE LET alive_processes ==
                 SelectSeq(w.wm.processes, LAMBDA p : w.children[p].alive)
         IN  [w |-> [w EXCEPT !.wm.processes = alive_processes,
                              !.wm.is_running = Len(alive_processes) > 0],
              value |-> Len(alive_processes) > 0]

\* subprocess.Popen of one emqtt_bench process, appended to _processes;
\* alive is what poll() finds after the sleep that follows
launch(w, generation, role, config, alive) ==
    [wm |-> [w.wm EXCEPT !.processes = Append(@, Len(w.children) + 1)],
     children |-> Append(w.children,
                         [generation |-> generation, role |-> role,
                          config |-> config, alive |-> alive])]

\* start(config): the outcomes, raised when start raises RuntimeError
\* because a process it launched has exited at once
start(w, config) ==
    LET w0 == IF w.wm.is_running THEN stop(w) ELSE w
        generation ==
            IF w.children = << >> THEN 1
            ELSE w.children[Len(w.children)].generation + 1
        w1 == [w0 EXCEPT !.wm.processes = << >>,
                         !.wm.last_config = Some(config)]
        subscribers ==
            IF config.num_subscribers > 0
            THEN { [w |-> launch(w1, generation, "sub", config, a),
                    raised |-> ~a] : a \in BOOLEAN }
            ELSE { [w |-> w1, raised |-> FALSE] }
        publishers(o) ==
            IF o.raised THEN {o}
            ELSE IF config.num_publishers > 0
            THEN { [w |-> launch(o.w, generation, "pub", config, a),
                    raised |-> ~a] : a \in BOOLEAN }
            ELSE {o}
        finish(o) ==
            IF o.raised THEN o ELSE [o EXCEPT !.w.wm.is_running = TRUE]
    IN  { finish(o) : o \in UNION { publishers(x) : x \in subscribers } }

restart(w) ==
    IF w.wm.last_config = None THEN { [w |-> w, raised |-> TRUE] }
    ELSE start(IF w.wm.is_running THEN stop(w) ELSE w, w.wm.last_config[1])

\* MQTTSampler.close through MosquittoBrokerEnv.close: the sampler object
\* stays in _mqtt_sampler, its client loop stopped and disconnected
close(sampler) == IF sampler = "none" THEN "none" ELSE "closed"

---------------------------------------------------------------------------
(* Knob application: the configuration file (environment/knobs.py,         *)
(* apply_knobs)                                                            *)
(*                                                                         *)
(* A file is the sequence of its key/value lines, each a record of the key *)
(* and the text after it; comment lines and blank lines are left out.  A   *)
(* text is a sequence of one-character strings for a numeral and of one    *)
(* word otherwise.  memory_limit is held in KiB, as in the knob space.     *)

Digits == << "0", "1", "2", "3", "4", "5", "6", "7", "8", "9" >>

\* str(n) of a non-negative int
RECURSIVE str(_)
str(n) ==
    IF n < 10 THEN << Digits[n + 1] >>
    ELSE Append(str(n \div 10), Digits[(n % 10) + 1])

\* int(text) of a decimal numeral
RECURSIVE int(_)
int(text) ==
    LET d == CHOOSE i \in 0 .. 9 : Digits[i + 1] = text[Len(text)]
    IN  IF Len(text) = 1 THEN d
        ELSE 10 * int(SubSeq(text, 1, Len(text) - 1)) + d

bool_text(b) == IF b THEN << "true" >> ELSE << "false" >>

\* the lines apply_knobs starts from when broker_template.conf is absent
FallbackLines ==
    << [key |-> "pid_file", text |-> << "mosquitto_broker_tuner.pid" >>],
       [key |-> "listener", text |-> str(1883)],
       [key |-> "allow_anonymous", text |-> bool_text(TRUE)],
       [key |-> "persistence", text |-> bool_text(FALSE)],
       [key |-> "log_type", text |-> << "none" >>],
       [key |-> "sys_interval", text |-> str(1)] >>

\* add_line: a bool as true/false, a number as str(int(value))
add_line(lines, key, value) ==
    Append(lines, [key |-> key,
                   text |-> IF key \in BoolKnobs THEN bool_text(value)
                            ELSE str(value)])

\* the first line of the template that sets persistence is replaced; a
\* template without one gets a line appended
set_persistence(lines, value) ==
    LET at == { i \in DOMAIN lines : lines[i].key = "persistence" }
        new == [key |-> "persistence", text |-> bool_text(value)]
    IN  IF at = {} THEN Append(lines, new)
        ELSE LET first == CHOOSE i \in at : \A j \in at : i <= j
             IN  [lines EXCEPT ![first] = new]

\* the knobs apply_knobs writes only when positive
PositiveOnly ==
    {"max_inflight_bytes", "max_queued_bytes", "memory_limit",
     "autosave_interval", "max_packet_size", "message_size_limit"}

\* a variant that writes a line for every knob
is_written_always(key, value) == TRUE

\* the condition under which apply_knobs writes the line of a knob that is
\* in the KnobDict
is_written(key, value) == key \in PositiveOnly => value > 0

\* a variant that writes max_packet_size as it is
written_as_given(key, value) == value

\* the value apply_knobs writes: max(20, .) for max_packet_size
written_value(key, value) ==
    IF key = "max_packet_size" THEN Max(20, value) ELSE value

\* the knobs in the order apply_knobs writes them
WriteOrder ==
    << "max_inflight_messages", "max_inflight_bytes", "max_queued_messages",
       "max_queued_bytes", "queue_qos0_messages", "memory_limit",
       "autosave_interval", "set_tcp_nodelay", "max_packet_size",
       "message_size_limit" >>

RECURSIVE write_knobs(_, _, _)
write_knobs(lines, knobs, i) ==
    IF i > Len(WriteOrder) THEN lines
    ELSE LET key == WriteOrder[i]
         IN  write_knobs(IF is_written(key, knobs[key])
                         THEN add_line(lines, key,
                                       written_value(key, knobs[key]))
                         ELSE lines,
                         knobs, i + 1)

\* the file apply_knobs writes for a KnobDict holding all eleven knobs, or
\* None in a dry run
config_file(template, knobs, dry_run) ==
    IF dry_run THEN None
    ELSE Some(write_knobs(set_persistence(template, knobs.persistence),
                          knobs, 1))

\* a line of the file read back: the inverse of add_line
parse_line(line) ==
    IF line.key \in BoolKnobs THEN line.text = bool_text(TRUE)
    ELSE int(line.text)

\* the apply_knobs call under study: its inputs, then the file
NoConfCall ==
    [pc |-> "idle", template |-> << >>, knobs |-> None, dry_run |-> FALSE,
     file |-> None]

---------------------------------------------------------------------------
(* The broker restart inside step (environment/broker.py, step and         *)
(* _wait_for_broker_ready; environment/knobs.py, apply_knobs)              *)
(*                                                                         *)
(* A process identifier is "old" for the broker that ran before            *)
(* apply_knobs and "new" for the one apply_knobs started.                  *)

\* what one pass of the loop of _wait_for_broker_ready observes: systemctl
\* is-active, the listening port, pgrep -o mosquitto, the entries of /proc
ReadyProbes ==
    [active : BOOLEAN, port_ready : BOOLEAN,
     pgrep : {None, Some("new")}, proc : {{}, {"new"}}]

\* one pass of the loop of _wait_for_broker_ready: whether it returns, and
\* cfg.proc.pid afterwards
check_broker_ready(pid, probe) ==
    IF ~probe.active THEN [returned |-> FALSE, pid |-> pid]
    ELSE LET found == probe.pgrep # None /\ probe.pgrep[1] \in probe.proc
             pid1 == IF found THEN probe.pgrep[1] ELSE pid
         IN  [returned |-> probe.port_ready /\ pid1 \in probe.proc,
              pid |-> pid1]

\* the calls of step and apply_knobs that block, each with whether a
\* KeyboardInterrupt raised inside it reaches the caller of step: a bare
\* except swallows it, except Exception and a handler-free call do not
BlockingCalls ==
    [stop_mosquitto |-> TRUE, find_mosquitto |-> FALSE,
     start_mosquitto |-> TRUE, wait_for_broker_ready |-> TRUE,
     workload_restart |-> TRUE, sleep_30 |-> TRUE, sleep_12 |-> TRUE,
     sampler_close |-> FALSE, sample_state |-> TRUE]

\* the interrupts that may arrive during the listed calls: none, or one
\* inside one of the calls
Interrupts(blocking) == {"none"} \cup blocking

\* the step through its restart branch: position, supervisor, cfg.proc.pid,
\* passes of the readiness loop, sampler, the calls made so far, and the
\* outcome
NoRestartCall ==
    [pc |-> "idle", w |-> None, pid |-> "old", checks |-> 0,
     ready |-> FALSE, sampler |-> "none", trace |-> << >>,
     swallowed |-> FALSE, result |-> "none", reason |-> "",
     probed_pid |-> "none"]

\* the workload part of the restart branch with a supervisor attached: the
\* supervisor afterwards and the calls made, one outcome per way restart
\* can go
restart_workload(w) ==
    LET r == is_running(w)
        w1 == IF r.value THEN stop(r.w) ELSE r.w
        t1 == IF r.value THEN << "is_running", "stop" >>
              ELSE << "is_running" >>
    IN  IF w1.wm.last_config = None
        THEN { [w |-> w1, trace |-> t1 \o << "sleep_30" >>] }
        ELSE { IF o.raised
               THEN [w |-> o.w,
                     trace |-> t1 \o << "restart", "restart_raised",
                                        "sleep_30" >>]
               ELSE [w |-> is_running(o.w).w,
                     trace |-> t1 \o << "restart", "sleep_30",
                                        "is_running" >>] :
               o \in restart(w1) }

---------------------------------------------------------------------------
(* Metrics sampler (environment/utils.py, MQTTSampler)                     *)
(*                                                                         *)
(* Of the $SYS topics the model keeps $SYS/broker/uptime and               *)
(* $SYS/broker/messages/received.  Times are in seconds.  An entry of      *)
(* _topic_prev and _topic_last is the pair (value, time) of the code; the  *)
(* model adds to it era, the number of uptime decreases the sampler had    *)
(* seen when the message arrived.                                          *)

Topics == {"uptime", "received"}

\* MQTTSampler.__init__, connected telling whether CONNACK arrived within
\* the 5 s the constructor waits
NewSampler(connected) ==
    [connected |-> connected,
     topic_prev |-> [t \in Topics |-> None],
     topic_last |-> [t \in Topics |-> None],
     topic_count |-> [t \in Topics |-> 0]]

\* _on_connect with rc = 0
on_connect(s) == [s EXCEPT !.connected = TRUE]

\* _on_message for a numeric payload
on_message(s, topic, value, now, era) ==
    LET last == s.topic_last[topic]
        entry == Some([value |-> value, time |-> now, era |-> era])
    IN  IF last # None
        THEN IF topic = "uptime" /\ value < last[1].value
             THEN [s EXCEPT !.topic_prev[topic] = None,
                            !.topic_last[topic] = entry,
                            !.topic_count[topic] = 1]
             ELSE [s EXCEPT !.topic_prev[topic] = last,
                            !.topic_last[topic] = entry,
                            !.topic_count[topic] = @ + 1]
        ELSE [s EXCEPT !.topic_last[topic] = entry,
                       !.topic_count[topic] = 1]

\* a variant that leaves out the test against min_interval_sec
compute_rate_any_interval(s, topic, min_interval_sec, min_samples) ==
    LET prev == s.topic_prev[topic]
        last == s.topic_last[topic]
        count == s.topic_count[topic]
    IN  IF prev = None \/ last = None THEN None
        ELSE IF count < Max(2, min_samples) THEN None
        ELSE IF last[1].time <= prev[1].time THEN None
        ELSE IF last[1].value - prev[1].value < 0 THEN None
        ELSE Some([delta |-> last[1].value - prev[1].value,
                   seconds |-> last[1].time - prev[1].time])

\* _compute_rate_from_history: None, or the rate as delta over seconds
compute_rate_from_history(s, topic, min_interval_sec, min_samples) ==
    LET prev == s.topic_prev[topic]
        last == s.topic_last[topic]
        count == s.topic_count[topic]
    IN  IF prev = None \/ last = None THEN None
        ELSE IF count < Max(2, min_samples) THEN None
        ELSE IF last[1].time <= prev[1].time THEN None
        ELSE IF last[1].time - prev[1].time < min_interval_sec THEN None
        ELSE IF last[1].value - prev[1].value < 0 THEN None
        ELSE Some([delta |-> last[1].value - prev[1].value,
                   seconds |-> last[1].time - prev[1].time])

\* sample: the derived rate of messages/received with the configured
\* thresholds
sample(s) ==
    compute_rate_from_history(s, "received", RateMinIntervalSec,
                              RateMinSamples)

\* the head of _sample_state: the sampler is replaced when its _connected
\* flag is unset; connects tells whether the new one connects within the
\* retries
ensure_sampler(s, connects) ==
    IF s.connected THEN [sampler |-> s, replaced |-> FALSE, raised |-> FALSE]
    ELSE [sampler |-> NewSampler(connects), replaced |-> TRUE,
          raised |-> ~connects]

NoSampleRet ==
    [call |-> "none", dropped |-> FALSE, replaced |-> FALSE,
     raised |-> FALSE, started_empty |-> FALSE, rate |-> None,
     straddles |-> FALSE]

\* the sampler on its own: the object, its socket, the broker it listens
\* to, the clock, and what the last _sample_state did
NoSamplerCall ==
    [pc |-> "idle", sampler |-> NewSampler(FALSE), link |-> FALSE,
     broker |-> [uptime |-> 0, received |-> 0], restarts |-> 0,
     now |-> 0, era |-> 0,
     delivered |-> {}, dropped |-> FALSE, ret |-> NoSampleRet]

---------------------------------------------------------------------------
(* One call of MQTTSampler.sample (environment/utils.py) and what          *)
(* _sample_state makes of the table it returns (environment/broker.py)     *)

\* MQTTConfig.timeout_sec
TimeoutSec == 12

\* the $SYS topics of MQTTConfig.sample_wait_for_topics
WaitForTopics == Topics \cup {"clients"}

\* MQTTSampler.__init__ over these topics, CONNACK received
NewConnectedSampler ==
    [connected |-> TRUE,
     topic_prev |-> [t \in WaitForTopics |-> None],
     topic_last |-> [t \in WaitForTopics |-> None],
     topic_count |-> [t \in WaitForTopics |-> 0]]

\* dict(self._metrics): _on_message sets _metrics[topic] and
\* _topic_last[topic] to the same value in one critical section
metrics(s) ==
    [t \in {u \in DOMAIN s.topic_last : s.topic_last[u] # None}
        |-> s.topic_last[t][1].value]

\* _is_required_topics_fresh of sample: _metrics_ts[topic] is the time of
\* _topic_last[topic]
is_required_topics_fresh(s, start_time) ==
    \A t \in WaitForTopics :
        /\ s.topic_last[t] # None
        /\ s.topic_last[t][1].time >= start_time

\* the test of sample's wait loop, sample_wait_for_derived_rate being set:
\* TRUE when the loop is left at time now
window_over(s, start_time, now) ==
    \/ now - start_time >= TimeoutSec
    \/ /\ is_required_topics_fresh(s, start_time)
       /\ sample(s) # None
       /\ sample(s)[1].delta > 0

\* a rate of no messages
ZeroRate == [delta |-> 0, seconds |-> 1]

\* build_state_vector: clients_connected, broker_metrics.get(..., 0.0)
clients_connected(table) ==
    IF "clients" \in DOMAIN table THEN table["clients"] ELSE 0

\* build_state_vector: messages_received, the derived rate when the table
\* has one above zero; the 1min load topic is not among the modelled topics
messages_received(rate) ==
    IF rate # None /\ rate[1].delta > 0 THEN rate[1] ELSE ZeroRate

NoWindowRet ==
    [returned |-> FALSE, table |-> << >>, rate |-> None, prev |-> None,
     last |-> None, count |-> 0, arrived |-> {},
     obs |-> [clients |-> 0, throughput |-> ZeroRate, latency_p50 |-> 0]]

\* sample in progress: the sampler, the clock, the locals of sample and
\* the topics handled since the window opened
NoWindowCall ==
    [pc |-> "idle", sampler |-> NewConnectedSampler, now |-> 0,
     start_time |-> 0, rx_seq |-> 0, arrived |-> {}, table |-> << >>,
     last_latency_p50_ms |-> LatencyFallbackP50Ms, ret |-> NoWindowRet]

---------------------------------------------------------------------------
(* An episode as reset and step leave it (environment/broker.py): the two  *)
(* sliding windows, _last_applied_knobs, and what apply_knobs did to the   *)
(* configuration file and to the broker                                    *)

\* MosquittoBrokerEnv._history_window
HistoryWindow == 5

\* a variant that appends without dropping the oldest entry
append_untrimmed(history, x) == Append(history, x)

\* step: append to a sliding window, then pop(0) when it is longer than
\* _history_window
append_history(history, x) ==
    LET h == Append(history, x)
    IN  IF Len(h) > HistoryWindow THEN Tail(h) ELSE h

\* how a call of apply_knobs ends: the file cannot be written; the file is
\* written and the broker is stopped but does not start; the file is
\* written and the broker runs with it
ApplyOutcomes == {"write_failed", "start_failed", "started"}

\* apply_knobs(knobs) on the file and the broker of episode e
apply_knobs(e, knobs, outcome) ==
    IF outcome = "write_failed"
    THEN [raised |-> TRUE, config_file |-> e.config_file,
          broker |-> e.broker]
    ELSE IF outcome = "start_failed"
    THEN [raised |-> TRUE, config_file |-> Some(knobs), broker |-> None]
    ELSE [raised |-> FALSE, config_file |-> Some(knobs),
          broker |-> Some(knobs)]

NoEpisodeRet ==
    [call |-> "none", raised |-> FALSE, failed |-> FALSE, noop |-> FALSE,
     knobs |-> None, before |-> 0, sample |-> None]

\* MosquittoBrokerEnv.__init__, with a file and a broker the environment
\* has not touched
NoEpisodeCall ==
    [pc |-> "idle", throughput_history |-> << >>,
     latency_history |-> << >>, last_applied_knobs |-> None,
     config_file |-> None, broker |-> None, steps |-> 0,
     ret |-> NoEpisodeRet]

\* the samplers the environment has built: _mqtt_sampler as 0 for None or
\* the index of an object, each object with whether its client is open and
\* its _connected flag, and whether an object was ever built while another
\* was open
NoLife == [sampler |-> 0, objects |-> << >>, overlap |-> FALSE]

NoLifeCall ==
    [pc |-> "idle", life |-> NoLife,
     ret |-> [call |-> "none", raised |-> FALSE]]

---------------------------------------------------------------------------
(* State of MosquittoBrokerEnv *)

VARIABLES
    cfg,                    \* EnvConfig
    step_count,             \* _step_count
    last_state,             \* _last_state
    initial_state,          \* _initial_state, the episode baseline
    last_applied_knobs,     \* _last_applied_knobs
    restart_count,          \* _restart_count
    consecutive_failures,   \* _consecutive_failures
    mqtt_sampler,           \* _mqtt_sampler: "none", "pending", "connected", "closed"
    last_latency_p50_ms,    \* _last_latency_p50_ms
    ret,                    \* what the last call of reset or step returned
    calls,                  \* what the last call did: collaborator calls, locals
    action,                 \* history: the action of the last call, if a step
    returned_obs,           \* history: observation of the last successful reset or step
    previous_baseline,      \* history: _initial_state when the last reset began
    failed_in_a_row,        \* history: failure transitions since a success or reset
    numpy,                  \* the scalar promotion of the installed NumPy
    knob_call,              \* a call of encode_knobs / decode_action on its own
    reward_call,            \* calls of _compute_reward on their own
    wm,                     \* the WorkloadManager attached to the environment
    children,               \* the processes the WorkloadManager has launched
    wm_ret,                 \* what the last call on the WorkloadManager did
    last_start,             \* history: the config of the last start call
    conf_call,              \* a call of apply_knobs writing the configuration file
    restart_call,           \* a step through the broker restart, call by call
    sampler_call,           \* an MQTTSampler and the environment's use of it
    episode_call,           \* an episode: the histories, the file and the broker
    life_call,              \* the samplers the environment has built
    timers                  \* the generations whose auto-stop thread sleeps

env_vars == << cfg, step_count, last_state, initial_state, last_applied_knobs,
               restart_count, consecutive_failures, mqtt_sampler,
               last_latency_p50_ms, ret, calls, action, returned_obs,
               previous_baseline, failed_in_a_row >>

workload_vars == << wm, children, wm_ret, last_start >>

late_vars == << episode_call, life_call, timers >>

detail_vars == << conf_call, restart_call, sampler_call, late_vars >>

vars == << env_vars, numpy, knob_call, reward_call, workload_vars,
           detail_vars >>

ZeroObs == [clients |-> 0, throughput |-> 0, latency_p50 |-> 0]

\* the fields of the environment object as one record
Self ==
    [step_count |-> step_count, last_state |-> last_state,
     initial_state |-> initial_state, last_applied_knobs |-> last_applied_knobs,
     restart_count |-> restart_count,
     consecutive_failures |-> consecutive_failures,
     mqtt_sampler |-> mqtt_sampler,
     last_latency_p50_ms |-> last_latency_p50_ms]

\* baseline_ok is reset's local of that name when reset returns
NoCalls ==
    [apply_knobs |-> 0, wait_for_broker_ready |-> 0, wm_stop |-> 0,
     wm_restart |-> 0, sampler_drop |-> 0, baseline_ok |-> FALSE]

NoRet ==
    [call |-> "none", kind |-> "none", obs |-> ZeroObs, reward |-> 0,
     terminated |-> FALSE, truncated |-> FALSE, error_reason |-> "",
     step |-> 0, consecutive_failures |-> 0, restart_count |-> 0,
     throughput |-> 0, latency_p50 |-> 0]

---------------------------------------------------------------------------
(* Metrics sampler as the loop sees it (environment/utils.py) *)

\* MQTTSampler(cfg): connect raises, or the object is built and its
\* _connected flag is set within the constructor's wait or is not
MQTTSampler == {"raise", "pending", "connected"}

\* what MQTTSampler.sample hands to build_state_vector: clients/connected
\* over 1000 and the chosen message rate over 10000
BrokerMetrics ==
    { [clients |-> 0, throughput |-> 5],
      [clients |-> 2, throughput |-> 3],
      [clients |-> 2, throughput |-> 5] }

\* p50 of get_latency_probe_debug when it reports samples > 0, and 0 when
\* it reports none: WorkloadManager's probe always reports samples = 0
LatencyProbe == {0}

\* the retry loop of _sample_state; cur is what self._mqtt_sampler holds
RECURSIVE create_sampler(_, _)
create_sampler(retry, cur) ==
    UNION {
        IF o = "raise"
        THEN IF retry < MaxRetries - 1
             THEN create_sampler(retry + 1, cur)
             ELSE {[raised |-> TRUE, sampler |-> cur]}
        ELSE IF o = "connected"
        THEN {[raised |-> FALSE, sampler |-> "connected"]}
        ELSE \* built but not connected: wait up to 5 s more
             {[raised |-> FALSE, sampler |-> "connected"]}
             \cup (IF retry < MaxRetries - 1
                   THEN create_sampler(retry + 1, "none")
                   ELSE {[raised |-> TRUE, sampler |-> "pending"]})
        : o \in MQTTSampler }

\* a variant that takes the probe's p50 whatever its sample count
latency_p50_of_probe(probe, last) == probe

\* the latency that enters the observation
latency_p50(probe, last) ==
    IF probe > 0 THEN probe
    ELSE IF last > 0 THEN last
    ELSE LatencyFallbackP50Ms

build_state_vector(m, lat) ==
    [clients |-> m.clients, throughput |-> m.throughput, latency_p50 |-> lat]

\* every outcome of self._sample_state() from environment s
sample_state(s) ==
    LET ensured ==
            IF s.mqtt_sampler = "connected"
            THEN {[raised |-> FALSE, sampler |-> "connected"]}
            ELSE create_sampler(0, IF s.mqtt_sampler = "none" THEN "none"
                                                               ELSE "closed")
    IN  UNION {
            IF e.raised
            THEN {[raised |-> TRUE, obs |-> ZeroObs,
                   env |-> [s EXCEPT !.mqtt_sampler = e.sampler]]}
            ELSE \* sampler.sample() raises
                 {[raised |-> TRUE, obs |-> ZeroObs,
                   env |-> [s EXCEPT !.mqtt_sampler = e.sampler]]}
                 \cup
                 { LET lat == latency_p50(p, s.last_latency_p50_ms)
                   IN  [raised |-> FALSE,
                        obs |-> build_state_vector(m, lat),
                        env |-> [s EXCEPT !.mqtt_sampler = e.sampler,
                                          !.last_latency_p50_ms = lat]]
                   : m \in BrokerMetrics, p \in LatencyProbe }
            : e \in ensured }

---------------------------------------------------------------------------
(* Workload supervisor as the loop sees it *)

\* the try block that follows a broker restart: is_running(), stop() when it
\* reports true, restart() when _last_config is set.  Either there is no
\* supervisor, or it runs nothing and has no saved configuration, and nothing
\* is called; or it is running a saved configuration, and both are called
WorkloadRestart ==
    { [wm_stop |-> 0, wm_restart |-> 0], [wm_stop |-> 1, wm_restart |-> 1] }

---------------------------------------------------------------------------
(* step *)

\* a variant that ends the episode one step late
TerminatedPast(sc) == sc > MaxSteps

\* terminated = self._step_count >= self.cfg.max_steps
Terminated(sc) == sc >= MaxSteps

\* a variant that truncates one failure late
FailureTruncatedPast(cf) == cf > MaxConsecutiveFailures

\* truncated = self._consecutive_failures >= max_consecutive_failures
FailureTruncated(cf) == cf >= MaxConsecutiveFailures

\* a variant that always hands back the zero vector
fallback_zeros(ls) == ZeroObs

fallback_state(ls) == IF ls # None THEN ls[1] ELSE ZeroObs

make_failure_transition(s, reason, c) ==
    LET cf == s.consecutive_failures + 1
        fb == fallback_state(s.last_state)
    IN  [env |-> [s EXCEPT !.consecutive_failures = cf],
         calls |-> c,
         ret |-> [call |-> "step", kind |-> "failure", obs |-> fb,
                  reward |-> FailedStepPenalty,
                  terminated |-> Terminated(s.step_count),
                  truncated |-> FailureTruncated(cf),
                  error_reason |-> reason, step |-> s.step_count,
                  consecutive_failures |-> cf,
                  restart_count |-> s.restart_count,
                  throughput |-> fb.throughput,
                  latency_p50 |-> fb.latency_p50]]

\* _compute_reward's result, clipped to +-reward_clip; its value is left open
RewardValues == {-5, 5}

\* the counter reset that follows a successful _sample_state
after_sample(s) == [s EXCEPT !.consecutive_failures = 0]

\* step from its third phase on: sample, bookkeeping, reward, return
step_sample(s, c) ==
    UNION {
        IF r.raised
        THEN {make_failure_transition(r.env, "sample_state_failed", c)}
        ELSE LET s2 == after_sample(r.env)
             IN  {make_failure_transition(s2, "reward_compute_failed", c)}
                 \cup
                 { [env |-> [s2 EXCEPT !.last_state = Some(r.obs)],
                    calls |-> c,
                    ret |-> [call |-> "step", kind |-> "ok", obs |-> r.obs,
                             reward |-> rw,
                             terminated |-> Terminated(s2.step_count),
                             truncated |-> FALSE,
                             error_reason |-> "", step |-> s2.step_count,
                             consecutive_failures |-> s2.consecutive_failures,
                             restart_count |-> s2.restart_count,
                             throughput |-> r.obs.throughput,
                             latency_p50 |-> r.obs.latency_p50]]
                   : rw \in RewardValues }
        : r \in sample_state(s) }

\* a variant that never recognises the knobs as already applied
knobs_never_unchanged(last, knobs) == FALSE

\* the comparison that lets step skip knob application
knobs_unchanged(last, knobs) == last = knobs

\* the second phase of a step that applied knobs and restarted the broker
step_restart(s, knobs) ==
    LET s1 == [s EXCEPT !.last_applied_knobs = knobs,
                        !.restart_count = @ + 1,
                        !.mqtt_sampler = "none"]
    IN  UNION {
            step_sample(s1,
                [NoCalls EXCEPT
                    !.apply_knobs = 1, !.wait_for_broker_ready = 1,
                    !.wm_stop = w.wm_stop, !.wm_restart = w.wm_restart,
                    !.sampler_drop = IF s.mqtt_sampler # "none" THEN 1 ELSE 0])
            : w \in WorkloadRestart }

\* every outcome of step(action) from environment s
step(s, a) ==
    LET clipped == clip_action(a.shape)
        s1 == [s EXCEPT !.step_count = @ + 1]
        knobs == decode_action(clipped.shape, a.coord, numpy)
    IN  IF ~clipped.ok
        THEN {[env |-> s, calls |-> NoCalls,
               ret |-> [NoRet EXCEPT !.call = "step", !.kind = "raise"]]}
        ELSE IF knobs = None
        THEN {make_failure_transition(s1, "decode_action_failed", NoCalls)}
        ELSE IF knobs_unchanged(s1.last_applied_knobs, knobs)
        THEN step_sample(s1, NoCalls)
        ELSE {make_failure_transition(s1, "apply_knobs_failed",
                                      [NoCalls EXCEPT !.apply_knobs = 1])}
             \cup step_restart(s1, knobs)

---------------------------------------------------------------------------
(* reset *)

\* the sampler check that opens reset; sampler is what self._mqtt_sampler
\* holds afterwards, raised tells that the constructor's error left reset
reset_sampler(cur) ==
    IF cur = "none"
    THEN UNION { IF o1 # "raise"
                 THEN {[raised |-> FALSE, sampler |-> o1]}
                 ELSE { IF o2 # "raise"
                        THEN [raised |-> FALSE, sampler |-> o2]
                        ELSE [raised |-> TRUE, sampler |-> "none"]
                        : o2 \in MQTTSampler }
                 : o1 \in MQTTSampler }
    ELSE IF cur # "connected"
    THEN { IF o # "raise"
           THEN [raised |-> FALSE, sampler |-> o]
           ELSE [raised |-> TRUE, sampler |-> "closed"]
           : o \in MQTTSampler }
    ELSE {[raised |-> FALSE, sampler |-> "connected"]}

\* the workload check before the first baseline is sampled: is_running(),
\* and restart() when there is a supervisor, it reports false and
\* _last_config is set
WorkloadFirstStart == [wm_restart : {0, 1}]

\* the viability floors of a baseline candidate
Viable(candidate) ==
    /\ candidate.clients >= BaselineMinClientsNorm
    /\ candidate.throughput >= BaselineMinThroughput

\* the candidate loop of reset, from attempt on
RECURSIVE sample_baseline(_, _)
sample_baseline(attempt, s) ==
    UNION {
        IF r.raised
        THEN {[raised |-> TRUE, env |-> r.env, state |-> ZeroObs,
               baseline_ok |-> FALSE]}
        ELSE IF Viable(r.obs)
        THEN {[raised |-> FALSE, env |-> r.env, state |-> r.obs,
               baseline_ok |-> TRUE]}
        ELSE IF attempt + 1 < Max(1, BaselineMaxAttempts)
        THEN sample_baseline(attempt + 1, r.env)
        ELSE {[raised |-> FALSE, env |-> r.env, state |-> r.obs,
               baseline_ok |-> FALSE]}
        : r \in sample_state(s) }

\* a variant that stores every sampled state as the baseline
update_baseline_always(initial, state, baseline_ok) == Some(state)

\* the baseline that reset stores
update_baseline(initial, state, baseline_ok) ==
    IF cfg.baseline_per_episode \/ initial = None
    THEN IF baseline_ok \/ initial = None THEN Some(state) ELSE initial
    ELSE initial

\* what reset returns for the sampled state and the stored baseline
reset_return(state, initial, rc) ==
    [call |-> "reset", kind |-> "ok", obs |-> state, reward |-> 0,
     terminated |-> FALSE, truncated |-> FALSE, error_reason |-> "",
     step |-> 0, consecutive_failures |-> 0, restart_count |-> rc,
     throughput |-> state.throughput, latency_p50 |-> state.latency_p50]

RaiseFrom(call) == [NoRet EXCEPT !.call = call, !.kind = "raise"]

\* a variant that zeroes the restart counter with the episode's counters
reset_counters_and_restarts(s) ==
    [s EXCEPT !.step_count = 0, !.consecutive_failures = 0,
              !.restart_count = 0]

\* the counters reset zeroes before it samples the baseline
reset_counters(s) == [s EXCEPT !.step_count = 0, !.consecutive_failures = 0]

\* reset from the zeroing of the counters on
reset_sample(s, c) ==
    LET s1 == reset_counters(s)
        first == IF s1.initial_state = None
                 THEN WorkloadFirstStart
                 ELSE {[wm_restart |-> 0]}
    IN  UNION {
            { LET c1 == [c EXCEPT !.wm_restart = @ + f.wm_restart]
              IN  IF b.raised
                  THEN [env |-> b.env, calls |-> c1, ret |-> RaiseFrom("reset")]
                  ELSE LET init == update_baseline(b.env.initial_state,
                                                   b.state, b.baseline_ok)
                       IN  [env |-> [b.env EXCEPT !.initial_state = init,
                                                  !.last_state = Some(b.state)],
                            calls |-> [c1 EXCEPT
                                          !.baseline_ok = b.baseline_ok],
                            ret |-> reset_return(b.state, init,
                                                 b.env.restart_count)]
              : b \in sample_baseline(0, s1) }
            : f \in first }

\* every outcome of reset() from environment s
reset(s) ==
    UNION {
        IF e.raised
        THEN {[env |-> [s EXCEPT !.mqtt_sampler = e.sampler],
               calls |-> NoCalls, ret |-> RaiseFrom("reset")]}
        ELSE LET s1 == [s EXCEPT !.mqtt_sampler = e.sampler]
             IN  IF ApplyDefaultOnReset
                    /\ ~knobs_unchanged(s1.last_applied_knobs,
                                        Some(get_default_knobs))
                 THEN \* apply_knobs(default_knobs) raises
                      {[env |-> s1,
                        calls |-> [NoCalls EXCEPT !.apply_knobs = 1],
                        ret |-> RaiseFrom("reset")]}
                      \cup
                      UNION {
                          reset_sample(
                              [s1 EXCEPT !.last_applied_knobs =
                                             Some(get_default_knobs),
                                         !.mqtt_sampler = "none"],
                              [NoCalls EXCEPT
                                  !.apply_knobs = 1,
                                  !.wait_for_broker_ready = 1,
                                  !.wm_stop = w.wm_stop,
                                  !.wm_restart = w.wm_restart,
                                  !.sampler_drop = 1])
                          : w \in WorkloadRestart }
                 ELSE reset_sample(s1, NoCalls)
        : e \in reset_sampler(s.mqtt_sampler) }

---------------------------------------------------------------------------
(* The loop as a state machine: the agent calls reset and step in any order *)

Configs == [baseline_per_episode : BOOLEAN]

\* actions the agent passes to step: their shape and the coordinate of
\* max_inflight_messages in thousandths
ActionShapes == { << ActionDim >>, << 1 >>, << 5 >>, << 2, ActionDim >> }
ActionCoords == {10, 500}
Actions ==
    { [shape |-> << ActionDim >>, coord |-> x] : x \in ActionCoords }
    \cup { [shape |-> sh, coord |-> 10] : sh \in ActionShapes }

\* the knob space is not being exercised on its own
NoKnobCall ==
    [pc |-> "idle", knob |-> "", range |-> None, value |-> None,
     coord |-> None, raw |-> None, decoded |-> None]

\* _compute_reward is not being exercised on its own
NoRewardCall ==
    [pc |-> "idle", cfg |-> DefaultRewardConfig, initial |-> None,
     prev |-> None, next |-> None, history |-> << >>, components |-> None,
     other |-> None, other_components |-> None]

NoWmRet ==
    [call |-> "none", raised |-> FALSE, value |-> FALSE,
     some_exited |-> FALSE, had_config |-> FALSE, unchanged |-> TRUE]

\* a WorkloadManager that is not being exercised on its own
WorkloadIdle ==
    /\ wm = NewWorkloadManager
    /\ children = << >>
    /\ wm_ret = NoWmRet
    /\ last_start = None

\* no episode, sampler life or auto-stop thread is being followed
LateIdle ==
    /\ episode_call = NoEpisodeCall
    /\ life_call = NoLifeCall
    /\ timers = {}

\* apply_knobs, the restart branch of step and the sampler are not being
\* exercised on their own
DetailIdle ==
    /\ LateIdle
    /\ conf_call = NoConfCall
    /\ restart_call = NoRestartCall
    /\ sampler_call = NoSamplerCall

\* the fields of the environment, its sampler apart, after __init__
EnvFreshWith(sampler) ==
    /\ mqtt_sampler = sampler
    /\ step_count = 0
    /\ last_state = None
    /\ initial_state = None
    /\ last_applied_knobs = None
    /\ restart_count = 0
    /\ consecutive_failures = 0
    /\ last_latency_p50_ms = LatencyFallbackP50Ms
    /\ ret = NoRet
    /\ calls = NoCalls
    /\ action = None
    /\ returned_obs = None
    /\ previous_baseline = None
    /\ failed_in_a_row = 0

\* the fields of the environment after __init__
EnvFresh == EnvFreshWith("none")

Init ==
    /\ cfg \in Configs
    /\ EnvFresh
    /\ numpy \in NumpyPromotion
    /\ knob_call = NoKnobCall
    /\ reward_call = NoRewardCall
    /\ WorkloadIdle
    /\ DetailIdle

Commit(o) ==
    /\ step_count' = o.env.step_count
    /\ last_state' = o.env.last_state
    /\ initial_state' = o.env.initial_state
    /\ last_applied_knobs' = o.env.last_applied_knobs
    /\ restart_count' = o.env.restart_count
    /\ consecutive_failures' = o.env.consecutive_failures
    /\ mqtt_sampler' = o.env.mqtt_sampler
    /\ last_latency_p50_ms' = o.env.last_latency_p50_ms
    /\ ret' = o.ret
    /\ calls' = o.calls
    /\ returned_obs' = IF o.ret.kind = "ok" THEN Some(o.ret.obs)
                                            ELSE returned_obs
    /\ failed_in_a_row' = IF o.ret.kind = "failure" THEN failed_in_a_row + 1
                                                    ELSE 0
    /\ UNCHANGED << cfg, numpy, knob_call, reward_call, workload_vars,
                    detail_vars >>

\* a step that would apply knobs
WouldApply(a) ==
    LET clipped == clip_action(a.shape)
        knobs == decode_action(clipped.shape, a.coord, numpy)
    IN  clipped.ok /\ knobs # None /\ knobs # last_applied_knobs

Reset ==
    /\ action' = None
    /\ previous_baseline' = initial_state
    /\ \E o \in reset(Self) : Commit(o)

Step ==
    /\ step_count < MaxStepCount
    /\ \E a \in Actions :
        /\ WouldApply(a) => restart_count < MaxRestartCount
        /\ action' = Some(a)
        /\ UNCHANGED previous_baseline
        /\ \E o \in step(Self, a) : Commit(o)

\* the sampler's I/O thread receives CONNACK: _on_connect sets _connected
OnConnect ==
    /\ mqtt_sampler = "pending"
    /\ mqtt_sampler' = "connected"
    /\ UNCHANGED << cfg, step_count, last_state, initial_state,
                    last_applied_knobs, restart_count, consecutive_failures,
                    last_latency_p50_ms, ret, calls, action, returned_obs,
                    previous_baseline, failed_in_a_row, numpy, knob_call,
                    reward_call, workload_vars, detail_vars >>

Next == Reset \/ Step \/ OnConnect

Spec == Init /\ [][Next]_vars

---------------------------------------------------------------------------
(* The knob space on its own: encode_knobs and decode_action applied to one *)
(* knob of one BrokerKnobSpace instance                                     *)

\* coordinates of a clipped action, in thousandths
ActionCoordinates == 0 .. 1000

\* BrokerKnobSpace is a dataclass: ranges and steps are constructor
\* arguments.  Beside the declared max_packet_size range, two instances
\* with a range of 2000 bytes, one of them with a step of 1
PacketSizeSpaces ==
    { [low |-> 0, high |-> 2000, step |-> 1024],
      [low |-> 0, high |-> 2000, step |-> 1] }

KnobRangesOf(k) ==
    IF k \in BoolKnobs THEN {None}
    ELSE {BrokerKnobSpace[k]}
         \cup (IF k = "max_packet_size" THEN PacketSizeSpaces ELSE {})

Knobs == IntKnobs \cup BoolKnobs

\* values handed to encode_knobs: the default, and the sentinel 0 of the
\* integer knobs
KnobValuesOf(k) ==
    {DefaultKnobs[k]} \cup (IF k \in IntKnobs THEN {0} ELSE {})

\* the calls on knob k: a coordinate to decode, or a value to encode
KnobInputs(k) ==
    { [NoKnobCall EXCEPT !.pc = "action", !.knob = k, !.range = r,
                         !.coord = Some(v)] :
        r \in KnobRangesOf(k), v \in ActionCoordinates }
    \cup
    { [NoKnobCall EXCEPT !.pc = "knobs", !.knob = k, !.range = r,
                         !.value = Some(x)] :
        r \in KnobRangesOf(k), x \in KnobValuesOf(k) }

InitKnobs ==
    /\ cfg = [baseline_per_episode |-> FALSE]
    /\ EnvFresh
    /\ numpy \in NumpyPromotion
    /\ \E k \in Knobs : knob_call \in KnobInputs(k)
    /\ reward_call = NoRewardCall
    /\ WorkloadIdle
    /\ DetailIdle

\* encode_knobs, one coordinate
EncodeKnobs ==
    /\ knob_call.pc = "knobs"
    /\ knob_call' =
         [knob_call EXCEPT !.pc = "action",
            !.coord = Some(encode_knob(knob_call.knob, knob_call.range,
                                       knob_call.value[1]))]
    /\ UNCHANGED << env_vars, detail_vars, numpy, reward_call, workload_vars >>

\* decode_action, one coordinate; raw is the local that _interp_with_zero
\* returned
DecodeAction ==
    /\ knob_call.pc = "action"
    /\ LET k == knob_call.knob
           r == knob_call.range
           v == knob_call.coord[1]
       IN  knob_call' =
             [knob_call EXCEPT !.pc = "decoded",
                !.raw = IF k \in BoolKnobs THEN None
                        ELSE Some(interp_knob(r, v, numpy)),
                !.decoded = Some(decode_knob(k, r, v, numpy))]
    /\ UNCHANGED << env_vars, detail_vars, numpy, reward_call, workload_vars >>

NextKnobs == EncodeKnobs \/ DecodeAction

SpecKnobs == InitKnobs /\ [][NextKnobs]_vars

---------------------------------------------------------------------------
(* The reward on its own: _compute_reward applied to the fields it reads,   *)
(* then applied again with other latencies and the same throughputs         *)

ThroughputNorms == {2, 10, 50, 60}
LatencyNorms == {0, 20, 50}
Observations == [throughput : ThroughputNorms, latency : LatencyNorms]

\* the samples of the episode's earlier steps still in the sliding windows
OlderHistories == { << >> } \cup { << o >> : o \in Observations }

InitReward ==
    /\ cfg = [baseline_per_episode |-> FALSE]
    /\ EnvFresh
    /\ numpy = "legacy"
    /\ knob_call = NoKnobCall
    /\ WorkloadIdle
    /\ DetailIdle
    /\ \E c \in RewardConfigs, b \in Observations, p \in Observations,
          n \in Observations, older \in OlderHistories :
         reward_call =
             [NoRewardCall EXCEPT !.pc = "inputs", !.cfg = c,
                                  !.initial = Some(b), !.prev = Some(p),
                                  !.next = Some(n),
                                  !.history = older \o << n >>]

ComputeReward ==
    /\ reward_call.pc = "inputs"
    /\ reward_call' =
         [reward_call EXCEPT !.pc = "computed",
            !.components = Some(compute_reward(reward_call.cfg,
                                   reward_call.initial, reward_call.prev,
                                   reward_call.next[1], reward_call.history))]
    /\ UNCHANGED << env_vars, detail_vars, numpy, knob_call, workload_vars >>

\* h with the latencies ls, one for each sample
with_latencies(h, ls) ==
    [j \in 1 .. Len(h) |-> [h[j] EXCEPT !.latency = ls[j]]]

\* the same call with other latencies in next_state and in _latency_history
ComputeRewardOtherLatency ==
    /\ reward_call.pc = "computed"
    /\ \E ls \in [1 .. Len(reward_call.history) -> LatencyNorms] :
         LET h == with_latencies(reward_call.history, ls)
             n == h[Len(h)]
         IN  reward_call' =
               [reward_call EXCEPT !.pc = "compared",
                  !.other = Some([next |-> n, history |-> h]),
                  !.other_components =
                      Some(compute_reward(reward_call.cfg,
                               reward_call.initial, reward_call.prev, n, h))]
    /\ UNCHANGED << env_vars, detail_vars, numpy, knob_call, workload_vars >>

NextReward == ComputeReward \/ ComputeRewardOtherLatency

SpecReward == InitReward /\ [][NextReward]_vars

---------------------------------------------------------------------------
(* The workload supervisor on its own: start, stop, is_running and restart  *)
(* called in any order, processes exiting on their own, and the            *)
(* environment the supervisor is attached to being closed                  *)

\* the supervisor as the operators above take it
W == [wm |-> wm, children |-> children]

\* generations launched so far
Generations ==
    IF children = << >> THEN 0 ELSE children[Len(children)].generation

InitWorkload ==
    /\ cfg = [baseline_per_episode |-> FALSE]
    /\ \E sampler \in {"none", "connected"} : EnvFreshWith(sampler)
    /\ numpy = "legacy"
    /\ knob_call = NoKnobCall
    /\ reward_call = NoRewardCall
    /\ WorkloadIdle
    /\ DetailIdle

WmStart ==
    /\ Generations < MaxGenerations
    /\ \E config \in WorkloadConfigs : \E o \in start(W, config) :
         /\ wm' = o.w.wm
         /\ children' = o.w.children
         /\ wm_ret' = [NoWmRet EXCEPT !.call = "start", !.raised = o.raised,
                                      !.unchanged = (o.w = W)]
         /\ last_start' = Some(config)
    /\ UNCHANGED << env_vars, detail_vars, numpy, knob_call, reward_call >>

WmStop ==
    /\ wm' = stop(W).wm
    /\ children' = stop(W).children
    /\ wm_ret' = [NoWmRet EXCEPT !.call = "stop", !.unchanged = (stop(W) = W)]
    /\ UNCHANGED << env_vars, detail_vars, numpy, knob_call, reward_call, last_start >>

WmIsRunning ==
    /\ wm' = is_running(W).w.wm
    /\ children' = is_running(W).w.children
    /\ wm_ret' =
         [NoWmRet EXCEPT !.call = "is_running",
            !.value = is_running(W).value,
            !.some_exited = \E p \in Range(wm.processes) : ~children[p].alive,
            !.unchanged = (is_running(W).w = W)]
    /\ UNCHANGED << env_vars, detail_vars, numpy, knob_call, reward_call, last_start >>

WmRestart ==
    /\ wm.last_config # None => Generations < MaxGenerations
    /\ \E o \in restart(W) :
         /\ wm' = o.w.wm
         /\ children' = o.w.children
         /\ wm_ret' = [NoWmRet EXCEPT !.call = "restart", !.raised = o.raised,
                                      !.had_config = (wm.last_config # None),
                                      !.unchanged = (o.w = W)]
    /\ last_start' = IF wm.last_config # None THEN wm.last_config
                                              ELSE last_start
    /\ UNCHANGED << env_vars, detail_vars, numpy, knob_call, reward_call >>

\* an emqtt_bench process exits on its own
ProcessExit ==
    /\ \E p \in DOMAIN children :
         /\ children[p].alive
         /\ children' = [children EXCEPT ![p].alive = FALSE]
    /\ UNCHANGED << env_vars, detail_vars, numpy, knob_call, reward_call, wm, wm_ret,
                    last_start >>

\* MosquittoBrokerEnv.close
Close ==
    /\ mqtt_sampler' = close(mqtt_sampler)
    /\ wm_ret' = [NoWmRet EXCEPT !.call = "close"]
    /\ UNCHANGED << cfg, step_count, last_state, initial_state,
                    last_applied_knobs, restart_count, consecutive_failures,
                    last_latency_p50_ms, ret, calls, action, returned_obs,
                    previous_baseline, failed_in_a_row, numpy, knob_call,
                    reward_call, wm, children, last_start, detail_vars >>

NextWorkload ==
    WmStart \/ WmStop \/ WmIsRunning \/ WmRestart \/ ProcessExit \/ Close

SpecWorkload == InitWorkload /\ [][NextWorkload]_vars

---------------------------------------------------------------------------
(* Knob application on its own: apply_knobs writing the configuration file *)
(* for one KnobDict                                                        *)

\* a template that leaves persistence out
TemplateWithoutPersistence ==
    SelectSeq(FallbackLines, LAMBDA l : l.key # "persistence")

Templates == { FallbackLines, TemplateWithoutPersistence }

\* values of a knob inside its declared range: zero, small values, the
\* default, the upper end
KnobDictValues(k) ==
    IF k \in BoolKnobs THEN BOOLEAN
    ELSE IF k = "max_packet_size"
         THEN {0, 10, 20, BrokerKnobSpace[k].high}
         ELSE IF k \in {"max_inflight_messages", "max_queued_messages"}
              THEN {0, DefaultKnobs[k]}
              ELSE {0, BrokerKnobSpace[k].step}

\* the KnobDicts holding all eleven knobs
KnobDicts ==
    [max_inflight_messages : KnobDictValues("max_inflight_messages"),
     max_inflight_bytes : KnobDictValues("max_inflight_bytes"),
     max_queued_messages : KnobDictValues("max_queued_messages"),
     max_queued_bytes : KnobDictValues("max_queued_bytes"),
     queue_qos0_messages : KnobDictValues("queue_qos0_messages"),
     memory_limit : KnobDictValues("memory_limit"),
     persistence : KnobDictValues("persistence"),
     autosave_interval : KnobDictValues("autosave_interval"),
     set_tcp_nodelay : KnobDictValues("set_tcp_nodelay"),
     max_packet_size : KnobDictValues("max_packet_size"),
     message_size_limit : KnobDictValues("message_size_limit")]

InitConfig ==
    /\ cfg = [baseline_per_episode |-> FALSE]
    /\ EnvFresh
    /\ numpy = "weak"
    /\ knob_call = NoKnobCall
    /\ reward_call = NoRewardCall
    /\ WorkloadIdle
    /\ \E t \in Templates, d \in KnobDicts, dry \in BOOLEAN :
         conf_call = [NoConfCall EXCEPT !.pc = "knobs", !.template = t,
                                        !.knobs = Some(d), !.dry_run = dry]
    /\ restart_call = NoRestartCall
    /\ sampler_call = NoSamplerCall
    /\ LateIdle

\* apply_knobs up to the point where the file is written
WriteConfig ==
    /\ conf_call.pc = "knobs"
    /\ conf_call' =
         [conf_call EXCEPT !.pc = "applied",
            !.file = config_file(conf_call.template, conf_call.knobs[1],
                                 conf_call.dry_run)]
    /\ UNCHANGED << env_vars, numpy, knob_call, reward_call, workload_vars,
                    restart_call, sampler_call, late_vars >>

NextConfig == WriteConfig

SpecConfig == InitConfig /\ [][NextConfig]_vars

---------------------------------------------------------------------------
(* One step whose knob change restarts the broker, call by call, with the  *)
(* user's interrupt arriving during any blocking call                      *)

\* the supervisors a step can find attached: never started, or started
\* once with some of its processes having exited since
Supervisors ==
    LET new == [wm |-> NewWorkloadManager, children |-> << >>]
        started == { o.w : o \in { x \in UNION { start(new, c) :
                                       c \in WorkloadConfigs } : ~x.raised } }
        exited(w) == { [w EXCEPT !.children = kill(w.children, pids)] :
                         pids \in SUBSET DOMAIN w.children }
    IN  {new} \cup UNION { exited(w) : w \in started }

InitRestart ==
    /\ cfg = [baseline_per_episode |-> FALSE]
    /\ EnvFresh
    /\ numpy = "weak"
    /\ knob_call = NoKnobCall
    /\ reward_call = NoRewardCall
    /\ WorkloadIdle
    /\ conf_call = NoConfCall
    /\ \E w \in {None} \cup { Some(x) : x \in Supervisors },
          sampler \in {"none", "connected"} :
         restart_call = [NoRestartCall EXCEPT !.pc = "apply_knobs", !.w = w,
                                              !.sampler = sampler]
    /\ sampler_call = NoSamplerCall
    /\ LateIdle

RestartUnchanged ==
    UNCHANGED << env_vars, numpy, knob_call, reward_call, workload_vars,
                 conf_call, sampler_call, late_vars >>

\* the KeyboardInterrupt leaves step
Propagate(call) ==
    restart_call' = [restart_call EXCEPT !.pc = "raised",
                       !.result = "interrupt",
                       !.trace = Append(@, call)]

\* step up to the return of apply_knobs
ApplyKnobs ==
    /\ restart_call.pc = "apply_knobs"
    /\ \E raised \in BOOLEAN,
          i \in Interrupts({"stop_mosquitto", "find_mosquitto",
                            "start_mosquitto"}) :
         IF i # "none" /\ BlockingCalls[i]
         THEN Propagate("apply_knobs")
         ELSE restart_call' =
                [restart_call EXCEPT
                   !.pc = IF raised THEN "returned" ELSE "wait",
                   !.result = IF raised THEN "failure" ELSE "none",
                   !.reason = IF raised THEN "apply_knobs_failed" ELSE "",
                   !.swallowed = (i # "none"),
                   !.trace = << "apply_knobs" >>]
    /\ RestartUnchanged

\* one pass of the loop of _wait_for_broker_ready, or its timeout
WaitForBrokerReady ==
    /\ restart_call.pc = "wait"
    /\ \E i \in Interrupts({"wait_for_broker_ready"}) :
         IF i # "none" THEN Propagate("wait_for_broker_ready")
         ELSE IF restart_call.checks = MaxReadyChecks
         THEN restart_call' =
                [restart_call EXCEPT !.pc = "workload",
                   !.trace = Append(@, "ready_timeout")]
         ELSE \E probe \in ReadyProbes :
                LET c == check_broker_ready(restart_call.pid, probe)
                IN  restart_call' =
                      [restart_call EXCEPT
                         !.pc = IF c.returned THEN "workload" ELSE "wait",
                         !.checks = @ + 1,
                         !.pid = c.pid,
                         !.ready = c.returned,
                         !.trace = IF c.returned
                                   THEN Append(@, "broker_ready") ELSE @]
    /\ RestartUnchanged

\* the workload part of the restart branch
RestartWorkload ==
    /\ restart_call.pc = "workload"
    /\ \E i \in Interrupts({"workload_restart", "sleep_30"}) :
         IF i # "none" THEN Propagate(i)
         ELSE IF restart_call.w = None
         THEN restart_call' =
                [restart_call EXCEPT !.pc = "telemetry",
                   !.trace = Append(@, "sleep_30")]
         ELSE \E o \in restart_workload(restart_call.w[1]) :
                restart_call' =
                  [restart_call EXCEPT !.pc = "telemetry",
                     !.w = Some(o.w),
                     !.trace = @ \o o.trace]
    /\ RestartUnchanged

\* the wait for the $SYS topics, then the old sampler closed and dropped
WaitTelemetry ==
    /\ restart_call.pc = "telemetry"
    /\ \E i \in Interrupts({"sleep_12"} \cup
                           IF restart_call.sampler = "none" THEN {}
                           ELSE {"sampler_close"}) :
         IF i # "none" /\ BlockingCalls[i] THEN Propagate(i)
         ELSE restart_call' =
                [restart_call EXCEPT !.pc = "sample",
                   !.sampler = "none",
                   !.swallowed = @ \/ (i # "none"),
                   !.trace = @ \o (IF restart_call.sampler = "none"
                                   THEN << "sleep_12" >>
                                   ELSE << "sleep_12", "sampler_close" >>)]
    /\ RestartUnchanged

\* _sample_state and the rest of step: a sampler that cannot connect makes
\* a failure transition; read_proc_metrics reads cfg.proc.pid
SampleState ==
    /\ restart_call.pc = "sample"
    /\ \E connected \in BOOLEAN, i \in Interrupts({"sample_state"}) :
         IF i # "none" THEN Propagate("sample_state")
         ELSE restart_call' =
                [restart_call EXCEPT !.pc = "returned",
                   !.sampler = IF connected THEN "connected" ELSE "none",
                   !.result = IF connected THEN "ok" ELSE "failure",
                   !.reason = IF connected THEN ""
                              ELSE "sample_state_failed",
                   !.probed_pid = IF connected THEN restart_call.pid
                                  ELSE "none",
                   !.trace = Append(@, "sample_state")]
    /\ RestartUnchanged

NextRestart ==
    ApplyKnobs \/ WaitForBrokerReady \/ RestartWorkload \/ WaitTelemetry
    \/ SampleState

SpecRestart == InitRestart /\ [][NextRestart]_vars

---------------------------------------------------------------------------
(* The sampler on its own: a broker that publishes its counters, restarts  *)
(* on its own account and accepts the client back, and the loop calling    *)
(* _sample_state at any time                                               *)

\* messages the broker receives between two publications
ReceivedSteps == {1, 3}

InitSampler ==
    /\ cfg = [baseline_per_episode |-> FALSE]
    /\ EnvFresh
    /\ numpy = "weak"
    /\ knob_call = NoKnobCall
    /\ reward_call = NoRewardCall
    /\ WorkloadIdle
    /\ conf_call = NoConfCall
    /\ restart_call = NoRestartCall
    /\ LateIdle
    /\ \E connected \in BOOLEAN :
         sampler_call = [NoSamplerCall EXCEPT !.pc = "running",
                           !.sampler = NewSampler(connected),
                           !.link = connected]

SamplerUnchanged ==
    UNCHANGED << env_vars, numpy, knob_call, reward_call, workload_vars,
                 conf_call, restart_call, late_vars >>

\* a publication interval of the broker passes and its counters grow
Tick ==
    /\ sampler_call.pc = "running"
    /\ \E dt \in {RateMinIntervalSec}, n \in ReceivedSteps :
         /\ sampler_call.now + dt <= MaxClock
         /\ sampler_call' =
              [sampler_call EXCEPT
                 !.now = @ + dt,
                 !.broker = [uptime |-> @.uptime + dt,
                             received |-> @.received + n],
                 !.delivered = {}]
    /\ SamplerUnchanged

\* the broker publishes a $SYS topic and the client thread runs _on_message
OnMessage ==
    /\ sampler_call.pc = "running"
    /\ sampler_call.link /\ sampler_call.sampler.connected
    /\ \E topic \in Topics \ sampler_call.delivered :
         LET value == sampler_call.broker[topic]
             decrease ==
                 /\ topic = "uptime"
                 /\ sampler_call.sampler.topic_last[topic] # None
                 /\ value < sampler_call.sampler.topic_last[topic][1].value
             era == IF decrease THEN sampler_call.era + 1
                    ELSE sampler_call.era
         IN  sampler_call' =
               [sampler_call EXCEPT
                  !.sampler = on_message(@, topic, value, sampler_call.now,
                                         era),
                  !.era = era,
                  !.delivered = @ \cup {topic}]
    /\ SamplerUnchanged

\* the broker is restarted by something other than the loop: its counters
\* start again and the client's socket drops; the sampler has no
\* on_disconnect callback
BrokerRestart ==
    /\ sampler_call.pc = "running"
    /\ sampler_call.link
    /\ sampler_call.restarts < MaxBrokerRestarts
    /\ sampler_call' =
         [sampler_call EXCEPT !.link = FALSE,
                              !.restarts = @ + 1,
                              !.broker = [uptime |-> 0, received |-> 0],
                              !.delivered = {},
                              !.dropped = TRUE]
    /\ SamplerUnchanged

\* the client thread connects, or reconnects after a drop, and CONNACK
\* runs _on_connect
SamplerOnConnect ==
    /\ sampler_call.pc = "running"
    /\ ~sampler_call.link
    /\ sampler_call' =
         [sampler_call EXCEPT !.link = TRUE,
                              !.sampler = on_connect(@)]
    /\ SamplerUnchanged

\* _sample_state up to the return of sample
SampleMetrics ==
    /\ sampler_call.pc = "running"
    /\ \E connects \in BOOLEAN :
         LET e == ensure_sampler(sampler_call.sampler, connects)
             s == e.sampler
             rate == IF e.raised THEN None ELSE sample(s)
         IN  sampler_call' =
               [sampler_call EXCEPT
                  !.sampler = s,
                  !.link = IF e.replaced THEN connects ELSE @,
                  !.era = IF e.replaced THEN 0 ELSE @,
                  !.dropped = FALSE,
                  !.ret = [call |-> "sample",
                           dropped |-> sampler_call.dropped,
                           replaced |-> e.replaced,
                           raised |-> e.raised,
                           started_empty |->
                               \A t \in Topics : s.topic_last[t] = None,
                           rate |-> rate,
                           straddles |->
                               /\ rate # None
                               /\ s.topic_prev["received"][1].era
                                    # s.topic_last["received"][1].era]]
    /\ SamplerUnchanged

NextSampler ==
    Tick \/ OnMessage \/ BrokerRestart \/ SamplerOnConnect \/ SampleMetrics

SpecSampler == InitSampler /\ [][NextSampler]_vars

---------------------------------------------------------------------------
(* One sample call against the client thread: messages arrive before,      *)
(* during and after the window, with any counter values                    *)

\* seconds between two events
Intervals == {RateMinIntervalSec - 1, TimeoutSec}

\* values of $SYS/broker/messages/received, in any order
Counters == {0, 3}

\* values of $SYS/broker/clients/connected
Clients == {2}

InitWindow ==
    /\ cfg = [baseline_per_episode |-> FALSE]
    /\ EnvFresh
    /\ numpy = "weak"
    /\ knob_call = NoKnobCall
    /\ reward_call = NoRewardCall
    /\ WorkloadIdle
    /\ conf_call = NoConfCall
    /\ restart_call = NoRestartCall
    /\ LateIdle
    /\ sampler_call = NoWindowCall

\* time passes, before the call and while sample sleeps in its loop
Elapse ==
    /\ sampler_call.pc \in {"idle", "window"}
    /\ \E dt \in Intervals :
         /\ sampler_call.now + dt <= MaxWindowClock
         /\ sampler_call' = [sampler_call EXCEPT !.now = @ + dt]
    /\ SamplerUnchanged

\* the client thread runs _on_message
Deliver ==
    /\ sampler_call.pc # "returned"
    /\ sampler_call.rx_seq < MaxMessages
    /\ \E topic \in WaitForTopics :
         \E value \in (IF topic = "received" THEN Counters
                       ELSE IF topic = "clients" THEN Clients
                       ELSE {sampler_call.now}) :
           sampler_call' =
             [sampler_call EXCEPT
                !.sampler = on_message(@, topic, value, sampler_call.now, 0),
                !.rx_seq = @ + 1,
                !.arrived = IF sampler_call.pc = "idle" THEN @
                            ELSE @ \cup {topic}]
    /\ SamplerUnchanged

\* sample: start_time = time.time(), later than every message handled
OpenWindow ==
    /\ sampler_call.pc = "idle"
    /\ \A t \in WaitForTopics :
         sampler_call.sampler.topic_last[t] # None
             => sampler_call.sampler.topic_last[t][1].time < sampler_call.now
    /\ sampler_call' = [sampler_call EXCEPT !.pc = "window",
                                            !.start_time = sampler_call.now,
                                            !.arrived = {}]
    /\ SamplerUnchanged

\* sample: the wait loop ends
LeaveWindow ==
    /\ sampler_call.pc = "window"
    /\ window_over(sampler_call.sampler, sampler_call.start_time,
                   sampler_call.now)
    /\ sampler_call' = [sampler_call EXCEPT !.pc = "leaving"]
    /\ SamplerUnchanged

\* sample: with self._lock: metrics = dict(self._metrics)
Snapshot ==
    /\ sampler_call.pc = "leaving"
    /\ sampler_call' = [sampler_call EXCEPT
                          !.pc = "snapshot",
                          !.table = metrics(sampler_call.sampler)]
    /\ SamplerUnchanged

\* sample: _compute_rate_from_history and the return; then _sample_state
\* up to build_state_vector
DerivedRate ==
    /\ sampler_call.pc = "snapshot"
    /\ \E probe \in LatencyProbe :
         LET s == sampler_call.sampler
             rate == sample(s)
             table == sampler_call.table
             lat == latency_p50(probe, sampler_call.last_latency_p50_ms)
         IN  sampler_call' =
               [sampler_call EXCEPT
                  !.pc = "returned",
                  !.last_latency_p50_ms = lat,
                  !.ret = [returned |-> TRUE,
                           table |-> table,
                           rate |-> rate,
                           prev |-> s.topic_prev["received"],
                           last |-> s.topic_last["received"],
                           count |-> s.topic_count["received"],
                           arrived |-> sampler_call.arrived,
                           obs |-> build_state_vector(
                                     [clients |-> clients_connected(table),
                                      throughput |-> messages_received(rate)],
                                     lat)]]
    /\ SamplerUnchanged

NextWindow ==
    Elapse \/ Deliver \/ OpenWindow \/ LeaveWindow \/ Snapshot \/ DerivedRate

SpecWindow == InitWindow /\ [][NextWindow]_vars

---------------------------------------------------------------------------
(* Episodes: reset and step in any order, with knob applications and       *)
(* samples that succeed or fail                                            *)

\* what decode_action yields: the defaults, or a larger in-flight window
EpisodeKnobs ==
    {DefaultKnobs, [DefaultKnobs EXCEPT !.max_inflight_messages = 40]}

\* msg_rate_norm and latency_p50_norm of a sample, in hundredths; the
\* latency is the fallback p50
EpisodeSamples ==
    [throughput : {2, 10}, latency : {LatencyFallbackP50Ms}]

InitEpisode ==
    /\ cfg = [baseline_per_episode |-> FALSE]
    /\ EnvFresh
    /\ numpy = "weak"
    /\ knob_call = NoKnobCall
    /\ reward_call = NoRewardCall
    /\ WorkloadIdle
    /\ conf_call = NoConfCall
    /\ restart_call = NoRestartCall
    /\ sampler_call = NoSamplerCall
    /\ life_call = NoLifeCall
    /\ timers = {}
    /\ episode_call = [NoEpisodeCall EXCEPT !.pc = "running"]

EpisodeUnchanged ==
    UNCHANGED << env_vars, numpy, knob_call, reward_call, workload_vars,
                 conf_call, restart_call, sampler_call, life_call, timers >>

\* reset: the default knobs are applied when they are not the remembered
\* ones, the windows are emptied, the baseline is sampled
ResetEpisode ==
    /\ episode_call.pc = "running"
    /\ \E outcome \in ApplyOutcomes, sampled \in BOOLEAN :
         LET e == episode_call
             applies == ApplyDefaultOnReset
                        /\ e.last_applied_knobs # Some(DefaultKnobs)
             a == IF applies THEN apply_knobs(e, DefaultKnobs, outcome)
                  ELSE [raised |-> FALSE, config_file |-> e.config_file,
                        broker |-> e.broker]
             r == [NoEpisodeRet EXCEPT !.call = "reset",
                        !.knobs = Some(DefaultKnobs),
                        !.noop = ~applies,
                        !.before = Len(e.throughput_history)]
         IN  IF a.raised
             THEN episode_call' =
                    [e EXCEPT !.config_file = a.config_file,
                              !.broker = a.broker,
                              !.ret = [r EXCEPT !.raised = TRUE]]
             ELSE episode_call' =
                    [e EXCEPT !.config_file = a.config_file,
                              !.broker = a.broker,
                              !.last_applied_knobs =
                                  IF applies THEN Some(DefaultKnobs) ELSE @,
                              !.steps = 0,
                              !.throughput_history = << >>,
                              !.latency_history = << >>,
                              !.ret = [r EXCEPT !.raised = ~sampled]]
    /\ EpisodeUnchanged

\* step: the knobs are applied unless they are the remembered ones, the
\* state is sampled and its throughput and latency enter the windows
StepEpisode ==
    /\ episode_call.pc = "running"
    /\ episode_call.steps < MaxEpisodeSteps
    /\ \E knobs \in EpisodeKnobs, outcome \in ApplyOutcomes,
          sampled \in {None} \cup { Some(s) : s \in EpisodeSamples } :
         LET e == episode_call
             noop == e.last_applied_knobs = Some(knobs)
             a == IF noop
                  THEN [raised |-> FALSE, config_file |-> e.config_file,
                        broker |-> e.broker]
                  ELSE apply_knobs(e, knobs, outcome)
             r == [NoEpisodeRet EXCEPT !.call = "step",
                        !.knobs = Some(knobs), !.noop = noop,
                        !.before = Len(e.throughput_history)]
             applied == [e EXCEPT !.steps = @ + 1,
                                  !.config_file = a.config_file,
                                  !.broker = a.broker]
         IN  IF a.raised
             THEN episode_call' =
                    [applied EXCEPT !.ret = [r EXCEPT !.failed = TRUE]]
             ELSE IF sampled = None
             THEN episode_call' =
                    [applied EXCEPT
                       !.last_applied_knobs = Some(knobs),
                       !.ret = [r EXCEPT !.failed = TRUE]]
             ELSE episode_call' =
                    [applied EXCEPT
                       !.last_applied_knobs = Some(knobs),
                       !.throughput_history =
                           append_history(@, sampled[1].throughput),
                       !.latency_history =
                           append_history(@, sampled[1].latency),
                       !.ret = [r EXCEPT !.sample = sampled]]
    /\ EpisodeUnchanged

NextEpisode == ResetEpisode \/ StepEpisode

SpecEpisode == InitEpisode /\ [][NextEpisode]_vars

---------------------------------------------------------------------------
(* The knob space on its grid: encode_knobs, then decode_action, applied   *)
(* to 0 and to multiples of the step of a knob whose encoding is exact in  *)
(* thousandths                                                             *)

GridKnobs == {"max_inflight_messages", "max_queued_messages"}

\* the values of knob k on the first grid points
GridValuesOf(k) ==
    { j * BrokerKnobSpace[k].step : j \in 0 .. MaxGridPoint }

InitGrid ==
    /\ cfg = [baseline_per_episode |-> FALSE]
    /\ EnvFresh
    /\ numpy \in NumpyPromotion
    /\ \E k \in GridKnobs : \E x \in GridValuesOf(k) :
         knob_call = [NoKnobCall EXCEPT !.pc = "knobs", !.knob = k,
                                        !.range = BrokerKnobSpace[k],
                                        !.value = Some(x)]
    /\ reward_call = NoRewardCall
    /\ WorkloadIdle
    /\ DetailIdle

SpecGrid == InitGrid /\ [][NextKnobs]_vars

---------------------------------------------------------------------------
(* The duration of a workload: start with a configuration whose duration   *)
(* is set starts a thread that sleeps for the duration and then stops the  *)
(* supervisor                                                              *)

\* publishers with or without subscribers, running until stopped or for
\* 300 s
TimedConfigs ==
    { [topic |-> "a", num_subscribers |-> n, num_publishers |-> 100,
       duration |-> d] : n \in {0, 100}, d \in {0, 300} }

\* the tail of start: the thread is started when the launch went through
\* and config.duration > 0
auto_stop_timers(pending, o, config) ==
    IF ~o.raised /\ config.duration > 0
    THEN pending \cup {o.w.children[Len(o.w.children)].generation}
    ELSE pending

InitTimer ==
    /\ cfg = [baseline_per_episode |-> FALSE]
    /\ EnvFresh
    /\ numpy = "legacy"
    /\ knob_call = NoKnobCall
    /\ reward_call = NoRewardCall
    /\ WorkloadIdle
    /\ DetailIdle

TimerUnchanged ==
    UNCHANGED << env_vars, numpy, knob_call, reward_call, conf_call,
                 restart_call, sampler_call, episode_call, life_call >>

TimedStart ==
    /\ Generations < MaxGenerations
    /\ \E config \in TimedConfigs : \E o \in start(W, config) :
         /\ wm' = o.w.wm
         /\ children' = o.w.children
         /\ timers' = auto_stop_timers(timers, o, config)
         /\ wm_ret' = [call |-> "start", raised |-> o.raised]
         /\ last_start' = Some(config)
    /\ TimerUnchanged

TimedRestart ==
    /\ wm.last_config # None
    /\ Generations < MaxGenerations
    /\ \E o \in restart(W) :
         /\ wm' = o.w.wm
         /\ children' = o.w.children
         /\ timers' = auto_stop_timers(timers, o, wm.last_config[1])
         /\ wm_ret' = [call |-> "restart", raised |-> o.raised]
    /\ last_start' = wm.last_config
    /\ TimerUnchanged

\* _auto_stop of the thread started for generation g wakes up: stop() when
\* _is_running is set
AutoStop ==
    /\ \E g \in timers :
         LET w == IF wm.is_running THEN stop(W) ELSE W
         IN  /\ wm' = w.wm
             /\ children' = w.children
             /\ timers' = timers \ {g}
             /\ wm_ret' =
                  [call |-> "auto_stop", raised |-> FALSE, timer |-> g,
                   stopped |-> { children[p].generation :
                                   p \in { q \in DOMAIN children :
                                             /\ children[q].alive
                                             /\ ~w.children[q].alive } }]
    /\ UNCHANGED last_start
    /\ TimerUnchanged

NextTimer ==
    TimedStart \/ TimedRestart \/ WmStop \/ ProcessExit \/ AutoStop

SpecTimer == InitTimer /\ [][NextTimer]_vars

---------------------------------------------------------------------------
(* The life of the samplers: every place where reset, step, _sample_state  *)
(* and close build, close or drop an MQTTSampler                           *)

\* self._mqtt_sampler.close() when the attribute is not None: loop_stop
\* and disconnect; the _connected flag stays as it is
close_current(l) ==
    IF l.sampler = 0 THEN l
    ELSE [l EXCEPT !.objects[l.sampler].open = FALSE]

\* self._mqtt_sampler = MQTTSampler(cfg.mqtt) with outcome o: a constructor
\* that raises has opened nothing and assigns nothing
construct(l, o) ==
    IF o = "raise" THEN [life |-> l, raised |-> TRUE]
    ELSE [life |->
            [sampler |-> Len(l.objects) + 1,
             objects |-> Append(l.objects,
                                [open |-> TRUE,
                                 connected |-> o = "connected"]),
             overlap |-> l.overlap
                         \/ \E i \in DOMAIN l.objects : l.objects[i].open],
          raised |-> FALSE]

\* a variant that drops the reference without closing the sampler
forget_sampler(l) == [l EXCEPT !.sampler = 0]

\* after a broker restart, in reset and in step: close, then
\* self._mqtt_sampler = None
drop_sampler(l) == [close_current(l) EXCEPT !.sampler = 0]

\* the head of reset
reset_head(l) ==
    IF l.sampler = 0
    THEN UNION { IF construct(l, o).raised
                 THEN { construct(l, o2) : o2 \in MQTTSampler }
                 ELSE { construct(l, o) }
                 : o \in MQTTSampler }
    ELSE IF ~l.objects[l.sampler].connected
    THEN { construct(close_current(l), o) : o \in MQTTSampler }
    ELSE { [life |-> l, raised |-> FALSE] }

\* the retry loop of _sample_state
RECURSIVE recreate_sampler(_, _)
recreate_sampler(retry, l) ==
    UNION {
        LET c == construct(l, o)
        IN  IF c.raised
            THEN IF retry < MaxRetries - 1
                 THEN recreate_sampler(retry + 1, l)
                 ELSE { c }
            ELSE IF o = "connected"
            THEN { c }
            ELSE \* CONNACK arrives within the 5 s of the loop, or not
                 { [c EXCEPT !.life.objects[c.life.sampler].connected = TRUE] }
                 \cup
                 (IF retry < MaxRetries - 1
                  THEN recreate_sampler(retry + 1, drop_sampler(c.life))
                  ELSE { [c EXCEPT !.raised = TRUE] })
        : o \in MQTTSampler }

\* _sample_state up to the call of sample
sampler_for_sample(l) ==
    IF l.sampler = 0 \/ ~l.objects[l.sampler].connected
    THEN recreate_sampler(0, close_current(l))
    ELSE { [life |-> l, raised |-> FALSE] }

InitLife ==
    /\ cfg = [baseline_per_episode |-> FALSE]
    /\ EnvFresh
    /\ numpy = "weak"
    /\ knob_call = NoKnobCall
    /\ reward_call = NoRewardCall
    /\ WorkloadIdle
    /\ conf_call = NoConfCall
    /\ restart_call = NoRestartCall
    /\ sampler_call = NoSamplerCall
    /\ episode_call = NoEpisodeCall
    /\ timers = {}
    /\ life_call = [NoLifeCall EXCEPT !.pc = "running"]

LifeUnchanged ==
    UNCHANGED << env_vars, numpy, knob_call, reward_call, workload_vars,
                 conf_call, restart_call, sampler_call, episode_call,
                 timers >>

\* reset: the head, the drop when the default knobs were applied, the
\* first sample of the baseline
LifeReset ==
    /\ life_call.pc = "running"
    /\ Len(life_call.life.objects) < MaxSamplers
    /\ \E restarted \in BOOLEAN :
         \E h \in reset_head(life_call.life) :
           IF h.raised
           THEN life_call' = [life_call EXCEPT
                                !.life = h.life,
                                !.ret = [call |-> "reset", raised |-> TRUE]]
           ELSE \E s \in sampler_for_sample(
                           IF restarted THEN drop_sampler(h.life)
                           ELSE h.life) :
                  life_call' = [life_call EXCEPT
                                  !.life = s.life,
                                  !.ret = [call |-> "reset",
                                           raised |-> s.raised]]
    /\ LifeUnchanged

\* step: the drop when the knobs were applied, then _sample_state
LifeStep ==
    /\ life_call.pc = "running"
    /\ Len(life_call.life.objects) < MaxSamplers
    /\ \E used_restart \in BOOLEAN :
         \E s \in sampler_for_sample(
                     IF used_restart THEN drop_sampler(life_call.life)
                     ELSE life_call.life) :
           life_call' = [life_call EXCEPT
                           !.life = s.life,
                           !.ret = [call |-> "step", raised |-> s.raised]]
    /\ LifeUnchanged

\* MosquittoBrokerEnv.close
LifeClose ==
    /\ life_call.pc = "running"
    /\ life_call' = [life_call EXCEPT
                       !.life = close_current(@),
                       !.ret = [call |-> "close", raised |-> FALSE]]
    /\ LifeUnchanged

\* CONNACK reaches an open sampler that was built without it
LifeOnConnect ==
    /\ life_call.pc = "running"
    /\ \E i \in DOMAIN life_call.life.objects :
         /\ life_call.life.objects[i].open
         /\ ~life_call.life.objects[i].connected
         /\ life_call' = [life_call EXCEPT !.life.objects[i].connected = TRUE]
    /\ LifeUnchanged

NextLife == LifeReset \/ LifeStep \/ LifeClose \/ LifeOnConnect

SpecLife == InitLife /\ [][NextLife]_vars

---------------------------------------------------------------------------
(* Properties of the loop *)

\* the KnobDict that step decodes from the action of the last call
DecodedKnobs(act) ==
    LET a == act[1]
        clipped == clip_action(a.shape)
    IN  IF clipped.ok THEN decode_action(clipped.shape, a.coord, numpy) ELSE None

\* C1: every failure transition has reward failed_step_penalty, is truncated
\* exactly when the counter it incremented has reached
\* max_consecutive_failures, and reports that counter in its info
C1_FailureTransition ==
    ret.kind = "failure" =>
        /\ ret.reward = FailedStepPenalty
        /\ ret.truncated <=> (ret.consecutive_failures >= MaxConsecutiveFailures)
        /\ ret.consecutive_failures = consecutive_failures
        /\ ret.consecutive_failures >= 1

C1_Witness ==
    /\ ret.kind = "failure"
    /\ ret.truncated
    /\ ret.consecutive_failures = MaxConsecutiveFailures

\* C2: the last of max_consecutive_failures failed steps in a row is
\* truncated, whatever kind each failure was
C2_TruncatedAfterFailuresInARow ==
    (ret.kind = "failure" /\ failed_in_a_row >= MaxConsecutiveFailures)
        => ret.truncated

\* C3: a failure transition hands back the observation of the last
\* successful reset or step, zeros when there was none, and the stored last
\* observation is still that one
C3_FailureEchoesLastObservation ==
    ret.kind = "failure" =>
        /\ ret.obs = (IF returned_obs = None THEN ZeroObs ELSE returned_obs[1])
        /\ last_state = returned_obs

C3_Witness ==
    /\ ret.kind = "failure"
    /\ returned_obs # None
    /\ ret.obs = returned_obs[1]

\* C4: no error of a collaborator leaves step or reset as an exception
C4_NoErrorEscapes == ret.kind # "raise"

\* C5: a step whose action has a length other than 11 returns a failure
\* transition and applies no knobs
C5_WrongLengthIsFailure ==
    (ret.call = "step" /\ action # None /\ action[1].shape[1] # ActionDim)
        => (ret.kind = "failure" /\ calls.apply_knobs = 0)

\* C6: a step that decodes the KnobDict applied last calls apply_knobs zero
\* times, does not wait for the broker, does not stop or restart the
\* workload, does not drop the sampler (a connected sampler stays), and
\* leaves restart_count as it was
C6_NoOpStep ==
    [][ ( /\ step_count' = step_count + 1
          /\ action' # None
          /\ DecodedKnobs(action') # None
          /\ DecodedKnobs(action') = last_applied_knobs )
        => ( /\ calls'.apply_knobs = 0
             /\ calls'.wait_for_broker_ready = 0
             /\ calls'.wm_stop = 0
             /\ calls'.wm_restart = 0
             /\ calls'.sampler_drop = 0
             /\ (mqtt_sampler = "connected" => mqtt_sampler' = "connected")
             /\ restart_count' = restart_count
             /\ ret'.restart_count = restart_count
             /\ last_applied_knobs' = last_applied_knobs ) ]_vars

C6_Witness ==
    /\ ret.call = "step"
    /\ ret.kind = "ok"
    /\ action # None
    /\ DecodedKnobs(action) = last_applied_knobs
    /\ calls.apply_knobs = 0
    /\ restart_count = 1
    /\ mqtt_sampler = "connected"

\* C7 as stated: a step that returns terminated has its counter at
\* max_steps exactly
C7_TerminatedAtMaxSteps ==
    (ret.call = "step" /\ ret.terminated) => step_count = MaxSteps

\* C7: a step returns terminated exactly when its counter is at least
\* max_steps, so a step issued after a terminated one without a reset is
\* terminated with the counter beyond max_steps
C7_TerminatedFromMaxSteps ==
    (ret.call = "step" /\ ret.kind # "raise") =>
        /\ ret.step = step_count
        /\ ret.terminated <=> (step_count >= MaxSteps)

C7_Witness ==
    /\ ret.call = "step"
    /\ ret.terminated
    /\ step_count > MaxSteps

\* C8: restart_count never decreases from one call of reset or step to the
\* next, grows by at most one in a call, and is what info reports
C8_RestartCountMonotone ==
    [][ /\ restart_count' >= restart_count
        /\ restart_count' <= restart_count + 1
        /\ (ret'.kind \in {"ok", "failure"}
              => ret'.restart_count = restart_count') ]_vars

C8_Witness ==
    /\ ret.call = "reset"
    /\ ret.kind = "ok"
    /\ calls.apply_knobs = 1
    /\ restart_count = 1
    /\ ret.restart_count = 1

\* C9 as stated: after reset, a viable candidate gives a stored baseline at
\* or above the throughput floor, and no viable candidate leaves a previous
\* baseline as it was, whatever baseline_per_episode is
C9_BaselineViableEveryConfig ==
    (ret.call = "reset" /\ ret.kind = "ok") =>
        /\ calls.baseline_ok
              => initial_state[1].throughput >= BaselineMinThroughput
        /\ (~calls.baseline_ok /\ previous_baseline # None)
              => initial_state = previous_baseline

\* C9: after reset, a viable candidate gives a stored baseline at or above
\* the throughput floor when baseline_per_episode is set or there was no
\* baseline; a previous baseline stays as it was when no candidate was
\* viable or baseline_per_episode is not set
C9_BaselineViable ==
    (ret.call = "reset" /\ ret.kind = "ok") =>
        /\ initial_state # None
        /\ (calls.baseline_ok
               /\ (cfg.baseline_per_episode \/ previous_baseline = None))
              => /\ initial_state[1].throughput >= BaselineMinThroughput
                 /\ initial_state = Some(ret.obs)
        /\ (previous_baseline # None
               /\ (~calls.baseline_ok \/ ~cfg.baseline_per_episode))
              => initial_state = previous_baseline

C9_Witness ==
    /\ ret.call = "reset"
    /\ ret.kind = "ok"
    /\ ~cfg.baseline_per_episode
    /\ calls.baseline_ok
    /\ previous_baseline # None
    /\ initial_state = previous_baseline
    /\ initial_state[1].throughput < BaselineMinThroughput

\* C10: reset returns the stored baseline as its observation, and its info
\* reports that baseline's throughput and p50 latency (here under the
\* default baseline_per_episode)
C10_ResetReturnsBaseline ==
    (ret.call = "reset" /\ ret.kind = "ok" /\ cfg.baseline_per_episode) =>
        /\ initial_state = Some(ret.obs)
        /\ ret.throughput = initial_state[1].throughput
        /\ ret.latency_p50 = initial_state[1].latency_p50

---------------------------------------------------------------------------
(* Properties of the knob space *)

\* the call was made on the declared BrokerKnobSpace()
DeclaredSpace ==
    knob_call.knob \in IntKnobs
        => knob_call.range = BrokerKnobSpace[knob_call.knob]

\* the call encoded the knob's default value and decoded the result
DefaultRoundTrip ==
    /\ knob_call.pc = "decoded"
    /\ knob_call.value # None
    /\ knob_call.value[1] = DefaultKnobs[knob_call.knob]
    /\ DeclaredSpace

\* C11: decoding the encoded default value of a knob gives the default value
\* back, for each of the eleven knobs of the declared knob space, so that the
\* encoded default action decodes to the knobs reset applied.
C11_DecodeEncodeDefault ==
    DefaultRoundTrip => knob_call.decoded = knob_call.value

\* the call decoded the coordinate zero_eps / 2 of an integer knob
HalfZeroEpsDecoded ==
    /\ knob_call.pc = "decoded"
    /\ knob_call.knob \in IntKnobs
    /\ knob_call.coord = Some(5)

\* C12: for every knob that has the sentinel 0, the coordinate zero_eps / 2,
\* which is what encode_knobs produces for 0, decodes to 0.
C12_HalfZeroEpsDecodesToZero ==
    HalfZeroEpsDecoded => knob_call.decoded = Some(0)

\* the call decoded a coordinate of an integer knob of the declared space
IntKnobDecoded ==
    /\ knob_call.pc = "decoded"
    /\ knob_call.knob \in IntKnobs
    /\ DeclaredSpace

\* C13: every integer value decode_action returns for a coordinate in [0, 1]
\* lies inside the declared range of its knob and is 0 or a multiple of the
\* declared quantization step of its knob.
C13_DecodedInRangeOnStep ==
    IntKnobDecoded =>
        LET d == knob_call.decoded[1]
            r == knob_call.range
        IN  /\ r.low <= d /\ d <= r.high
            /\ d = 0 \/ d % r.step = 0

\* a coordinate whose interpolated value is off the step decoded to a
\* non-zero value
C13_Witness ==
    /\ IntKnobDecoded
    /\ knob_call.raw[1] % knob_call.range.step # 0
    /\ knob_call.decoded[1] > 0

\* the call decoded a max_packet_size coordinate
PacketSizeDecoded ==
    /\ knob_call.pc = "decoded"
    /\ knob_call.knob = "max_packet_size"

\* ... whose interpolated raw value is non-zero and below 20
SmallPacketSize ==
    /\ PacketSizeDecoded
    /\ knob_call.raw[1] > 0
    /\ knob_call.raw[1] < 20

---------------------------------------------------------------------------
(* Properties of the reward *)

\* the fields are those a step has when it calls _compute_reward: the
\* previous observation is the sample before the current one in the windows,
\* or, on the first step of an episode, the observation reset returned
StepInputs ==
    /\ reward_call.pc # "idle"
    /\ Len(reward_call.history) = 2
         => reward_call.prev = Some(reward_call.history[1])

RewardComputed == reward_call.pc \in {"computed", "compared"}

T_now  == reward_call.next[1].throughput
L_now  == reward_call.next[1].latency
T_prev == reward_call.prev[1].throughput
L_prev == reward_call.prev[1].latency
T_base == reward_call.initial[1].throughput
L_base == reward_call.initial[1].latency

\* C15 as stated: for every combination of baseline, previous observation,
\* current observation and histories that steps can produce, if
\* T_now > T_base, L_now <= L_base, T_now >= T_prev and L_now <= L_prev then
\* the reward is at least 0.
C15_RewardSign ==
    ( /\ RewardComputed /\ StepInputs
      /\ T_now > T_base /\ L_now <= L_base
      /\ T_now >= T_prev /\ L_now <= L_prev )
    => reward_call.components[1].reward >= 0

\* C15, amended: the baseline is compared with the means of the sliding
\* windows, not with the current sample: if T_avg >= T_base,
\* L_avg <= L_base, T_now >= T_prev and L_now <= L_prev then the reward is
\* at least 0.
C15_RewardSignOfMeans ==
    ( /\ RewardComputed /\ StepInputs
      /\ total(reward_call.history, "throughput")
             >= Len(reward_call.history) * T_base
      /\ total(reward_call.history, "latency")
             <= Len(reward_call.history) * L_base
      /\ T_now >= T_prev /\ L_now <= L_prev )
    => reward_call.components[1].reward >= 0

\* a second step of an episode whose window means and current sample are
\* better than the baseline and the previous sample, rewarded above 0
C15_Witness ==
    /\ reward_call.pc = "computed" /\ StepInputs
    /\ Len(reward_call.history) = 2
    /\ total(reward_call.history, "throughput") > 2 * T_base
    /\ total(reward_call.history, "latency") <= 2 * L_base
    /\ T_now > T_prev /\ L_now <= L_prev
    /\ T_base >= BaselineMinThroughput
    /\ reward_call.components[1].reward > 0

\* the second call had a current p50 and a latency-window mean that are
\* not above those of the first call, the throughputs being the same
OtherLatencyLower ==
    /\ reward_call.pc = "compared"
    /\ reward_call.other[1].next.latency <= L_now
    /\ total(reward_call.other[1].history, "latency")
           <= total(reward_call.history, "latency")

\* the latency step deltas of both calls are inside the clipping range, and
\* both rewards are inside the reward clip
Unsaturated ==
    LET c  == reward_call.cfg
        d1 == delta_latency_step(L_now, L_prev, c.reward_latency_floor_norm)
        d2 == delta_latency_step(reward_call.other[1].next.latency, L_prev,
                                 c.reward_latency_floor_norm)
        inside(r) == -c.reward_clip < r /\ r < c.reward_clip
    IN  /\ -c.reward_delta_clip < d1 /\ d1 < c.reward_delta_clip
        /\ -c.reward_delta_clip < d2 /\ d2 < c.reward_delta_clip
        /\ inside(reward_call.components[1].reward)
        /\ inside(reward_call.other_components[1].reward)

\* C16: with the throughput inputs held equal, a lower current p50 together
\* with a lower mean of the latency window never gives a smaller reward, and
\* gives a strictly larger one when the current p50 is strictly lower and
\* nothing is saturated.
C16_RewardMonotoneInLatency ==
    OtherLatencyLower =>
        /\ reward_call.other_components[1].reward
               >= reward_call.components[1].reward
        /\ (reward_call.other[1].next.latency < L_now /\ Unsaturated)
               => reward_call.other_components[1].reward
                      > reward_call.components[1].reward

\* with the weights of the test: a strictly lower current p50 and window
\* mean, a strictly larger reward
C16_Witness ==
    /\ OtherLatencyLower
    /\ Unsaturated
    /\ reward_call.cfg.reward_weight_base = 60
    /\ Len(reward_call.history) = 2
    /\ reward_call.other[1].next.latency < L_now
    /\ total(reward_call.other[1].history, "latency")
           < total(reward_call.history, "latency")
    /\ reward_call.other_components[1].reward
           > reward_call.components[1].reward

---------------------------------------------------------------------------
(* Properties of the workload supervisor *)

AliveChildren == { p \in DOMAIN children : children[p].alive }

AliveGenerations == { children[p].generation : p \in AliveChildren }

\* C17: at any time the live workload processes belong to at most one
\* generation, whatever the sequence of start, stop, restart and is_running,
\* a start that fails after launching some of its processes included.
C17_OneGenerationAlive == Cardinality(AliveGenerations) <= 1

\* C18: is_running returns false whenever a publisher or subscriber process
\* of the current generation has exited, even if others are alive.
C18_NotRunningWhenAnyExited ==
    (wm_ret.call = "is_running" /\ wm_ret.some_exited)
        => wm_ret.value = FALSE

\* C19: restart raises and changes nothing when no configuration was ever
\* saved; once start has been called, restart launches with the
\* configuration of the most recent start, and stop does not forget it.
C19_RestartUsesLastConfig ==
    /\ wm.last_config = last_start
    /\ (wm_ret.call = "restart" /\ ~wm_ret.had_config)
           => (wm_ret.raised /\ wm_ret.unchanged /\ children = << >>)
    /\ (wm_ret.call = "restart" /\ wm_ret.had_config)
           => /\ \A p \in Range(wm.processes) :
                    /\ children[p].config = last_start[1]
                    /\ children[p].generation = Generations
              /\ ~wm_ret.raised => (wm.processes # << >> /\ ~wm_ret.unchanged)

\* restart has relaunched a stopped workload with the saved configuration
C19_Witness ==
    /\ wm_ret.call = "restart"
    /\ wm_ret.had_config
    /\ ~wm_ret.raised
    /\ wm.is_running
    /\ Generations = 2
    /\ AliveGenerations = {2}

\* C20: when close on the environment has returned, the sampler connection
\* is torn down and the children of the attached workload supervisor have
\* been stopped.
C20_CloseStopsWorkload ==
    wm_ret.call = "close"
        => (mqtt_sampler # "connected" /\ AliveChildren = {})

---------------------------------------------------------------------------
(* Properties of the configuration file *)

\* apply_knobs has written the file
FileWritten == conf_call.pc = "applied" /\ conf_call.file # None

\* the lines of the written file that carry the knob
LinesOf(key) ==
    { i \in DOMAIN conf_call.file[1] : conf_call.file[1][i].key = key }

\* the KnobDict read back from the file: the knobs that have a line, each
\* with the value of its last line
ParsedKnobs ==
    LET file == conf_call.file[1]
        keys == { k \in IntKnobs \cup BoolKnobs : LinesOf(k) # {} }
    IN  [k \in keys |->
           parse_line(file[CHOOSE i \in LinesOf(k) :
                                 \A j \in LinesOf(k) : j <= i])]

OmittedZero(k) == k \in PositiveOnly /\ conf_call.knobs[1][k] = 0

\* the file holds one persistence line, carrying the knob's value
OnePersistenceLine ==
    /\ Cardinality(LinesOf("persistence")) = 1
    /\ ParsedKnobs["persistence"] = conf_call.knobs[1].persistence

\* C23, as stated: the knobs read back from the file are those of the
\* KnobDict, the omitted zeros apart, and the file holds one persistence line
C23_RoundTrip ==
    FileWritten =>
      /\ \A k \in IntKnobs \cup BoolKnobs :
           IF OmittedZero(k) THEN k \notin DOMAIN ParsedKnobs
           ELSE /\ k \in DOMAIN ParsedKnobs
                /\ ParsedKnobs[k] = conf_call.knobs[1][k]
      /\ OnePersistenceLine

\* C23: the knobs read back from the file are those of the KnobDict, the
\* omitted zeros apart and a max_packet_size of 1..19 apart, which reads back
\* as 20; the file holds one line per knob that is not omitted, and one
\* persistence line carrying the knob's value
C23_RoundTripButSmallPacketSize ==
    FileWritten =>
      /\ \A k \in IntKnobs \cup BoolKnobs :
           IF OmittedZero(k) THEN k \notin DOMAIN ParsedKnobs
           ELSE /\ Cardinality(LinesOf(k)) = 1
                /\ ParsedKnobs[k] =
                     IF k = "max_packet_size"
                     THEN Max(20, conf_call.knobs[1][k])
                     ELSE conf_call.knobs[1][k]
      /\ OnePersistenceLine

\* a file written over the template's persistence line for a KnobDict with
\* persistence on and a max_packet_size that reads back as it was given
C23_Witness ==
    /\ FileWritten
    /\ conf_call.template = FallbackLines
    /\ conf_call.knobs[1].persistence
    /\ conf_call.knobs[1].max_packet_size = BrokerKnobSpace.max_packet_size.high
    /\ ParsedKnobs["max_packet_size"] = conf_call.knobs[1].max_packet_size
    /\ conf_call.knobs[1].max_inflight_bytes = 0

---------------------------------------------------------------------------
(* Properties of the broker restart inside step *)

\* where the call occurs among the calls step has made
Positions(call) ==
    { i \in DOMAIN restart_call.trace : restart_call.trace[i] = call }

\* every occurrence of the later call has an occurrence of the earlier one
\* before it
Precedes(earlier, later) ==
    \A j \in Positions(later) : \E i \in Positions(earlier) : i < j

\* step has returned a transition to its caller
StepReturned == restart_call.pc = "returned"

\* C21: a KeyboardInterrupt raised during a blocking call inside step
\* reaches the caller of step: step never returns a transition, normal or
\* failure, after one has been raised.
C21_InterruptPropagates == StepReturned => ~restart_call.swallowed

\* C24: when apply_knobs has restarted the broker and the step returns an
\* observation, the process probe has read the new broker's process, not
\* the stopped one's.
C24_ProbeReadsNewPid ==
    (StepReturned /\ restart_call.result = "ok")
        => restart_call.probed_pid = "new"

\* C25: within a step that restarted the broker, the workload is restarted
\* only after the broker has been found ready, the wait for telemetry
\* starts only after the workload part, and sampling only after that wait.
C25_ReadyThenWorkloadThenTelemetryThenSample ==
    /\ Precedes("broker_ready", "restart")
    /\ Precedes("sleep_30", "sleep_12")
    /\ Precedes("sleep_12", "sample_state")

\* the calls of stop, restart, the 30 s wait and the sampling, in the order
\* step made them
SupervisorCalls ==
    SelectSeq(restart_call.trace,
              LAMBDA e : e \in {"stop", "restart", "sleep_30",
                                "sample_state"})

\* C26: on a step that restarted the broker with a supervisor attached,
\* step calls stop once, then restart once, then waits 30 s, then samples,
\* whatever is_running reported.
C26_StopRestartWaitSample ==
    (StepReturned /\ restart_call.w # None
     /\ Positions("sample_state") # {})
        => SupervisorCalls = << "stop", "restart", "sleep_30",
                                "sample_state" >>

\* C27: when the supervisor's restart raises during a step that restarted
\* the broker, the step returns a failure transition.
C27_RestartRaisedIsFailure ==
    (StepReturned /\ Positions("restart_raised") # {})
        => restart_call.result = "failure"

\* C28: when the broker has not become ready within
\* broker_restart_stable_sec, the step returns a failure transition.
C28_ReadyTimeoutIsFailure ==
    (StepReturned /\ Positions("ready_timeout") # {})
        => restart_call.result = "failure"

---------------------------------------------------------------------------
(* Properties of the sampler *)

\* _sample_state has just returned the metrics of sample
Sampled == sampler_call.ret.call = "sample" /\ ~sampler_call.ret.raised

\* C29: when the sampler's connection has dropped since the previous
\* sample call, the next call replaces the sampler, and the rate history
\* of the sampler serving the call starts empty.
C29_DroppedSamplerReplaced ==
    (Sampled /\ sampler_call.ret.dropped)
        => (sampler_call.ret.replaced /\ sampler_call.ret.started_empty)

\* C30: no received_rate is computed from two messages/received samples of
\* which one arrived before and one after an uptime decrease.
C30_NoRateAcrossUptimeDecrease ==
    (Sampled /\ sampler_call.ret.rate # None)
        => ~sampler_call.ret.straddles

---------------------------------------------------------------------------
(* Properties of one sample call *)

\* sample has returned a table that carries received_rate
RateEmitted == sampler_call.ret.returned /\ sampler_call.ret.rate # None

\* C31: a sample carries received_rate only if the sampler holds two
\* distinct messages/received updates whose times differ by at least
\* rate_min_interval_sec, and the rate it carries is not negative.
C31_RateFromTwoSpacedUpdates ==
    RateEmitted =>
        /\ sampler_call.ret.prev # None
        /\ sampler_call.ret.last # None
        /\ sampler_call.ret.count >= 2
        /\ sampler_call.ret.last[1].time - sampler_call.ret.prev[1].time
               >= RateMinIntervalSec
        /\ sampler_call.ret.rate[1].delta >= 0
        /\ sampler_call.ret.rate[1].seconds > 0

\* a rate was emitted although the counter had also been heard at a
\* closer spacing and with a decrease before
C31_Witness ==
    /\ RateEmitted
    /\ sampler_call.ret.count >= 3
    /\ sampler_call.ret.rate[1].delta > 0

\* sample has returned and _sample_state has built the observation
WindowReturned == sampler_call.ret.returned

\* C32: when no messages/received update arrives after the sample window
\* opened, the sample carries no derived rate and the throughput component
\* of the observation is 0.
C32_StaleCounterGivesNoRate ==
    (WindowReturned /\ "received" \notin sampler_call.ret.arrived)
        => /\ sampler_call.ret.rate = None
           /\ sampler_call.ret.obs.throughput.delta = 0

\* C33: the received_rate of a sample and the messages/received value of
\* the table returned with it are read from the same state of the sampler:
\* the rate ends at the counter value the table holds.
C33_RateAndSnapshotAgree ==
    RateEmitted =>
        /\ "received" \in DOMAIN sampler_call.ret.table
        /\ sampler_call.ret.table["received"]
               = sampler_call.ret.last[1].value

\* sample has returned a table without any entry
EmptyTable ==
    /\ WindowReturned
    /\ sampler_call.ret.table = << >>
    /\ sampler_call.ret.rate = None

\* C35: when the sampler returns an empty metrics table, the clients and
\* message-rate components of the observation are 0 and the p50 latency
\* component is the configured fallback.
C35_EmptyTableObservation ==
    EmptyTable =>
        /\ sampler_call.ret.obs.clients = 0
        /\ sampler_call.ret.obs.throughput.delta = 0
        /\ sampler_call.ret.obs.latency_p50 = LatencyFallbackP50Ms

\* the window timed out without any message handled
C35_Witness ==
    /\ EmptyTable
    /\ sampler_call.rx_seq = 0
    /\ sampler_call.now - sampler_call.start_time >= TimeoutSec

---------------------------------------------------------------------------
(* Further properties of the reward *)

\* C34: the base throughput delta of the reward is
\* (T_avg - T_base) / max(T_base, throughput_floor), squashed as the
\* configuration says, for every baseline, the ones below the floor too.
C34_BaseDeltaOverFlooredBaseline ==
    RewardComputed =>
        reward_call.components[1].throughput_base
            = squash(reward_call.cfg,
                     relative(total(reward_call.history, "throughput")
                                  - Len(reward_call.history) * T_base,
                              Len(reward_call.history)
                                  * Max(T_base, BaselineMinThroughput)))

---------------------------------------------------------------------------
(* Properties of an episode *)

\* the last call was a step that returned an observation and a reward
StepSucceeded ==
    /\ episode_call.ret.call = "step"
    /\ ~episode_call.ret.failed

C37_NoOpMeansApplied ==
    (episode_call.ret.call = "step" /\ episode_call.ret.noop) =>
        /\ episode_call.config_file = episode_call.ret.knobs
        /\ episode_call.broker = episode_call.ret.knobs

---------------------------------------------------------------------------
(* Properties of the knob space on its grid *)

\* encode_knobs has been applied to a grid value
GridEncoded ==
    /\ knob_call.pc \in {"action", "decoded"}
    /\ knob_call.value # None

\* C38: two different grid values of a knob never encode to the same
\* coordinate, and decoding the encoding of a grid value gives the value
\* back.
C38_EncodeInjectiveOnGrid ==
    GridEncoded =>
        /\ \A x \in GridValuesOf(knob_call.knob) \ {knob_call.value[1]} :
             encode_knob(knob_call.knob, knob_call.range, x)
                 # knob_call.coord[1]
        /\ knob_call.pc = "decoded"
             => knob_call.decoded = knob_call.value

---------------------------------------------------------------------------
(* Properties of the workload's duration *)

\* C39: the auto-stop thread started by one start call stops only the
\* processes of the generation that call launched; a newer generation is
\* left running when the older thread wakes up.
C39_AutoStopOwnGeneration ==
    wm_ret.call = "auto_stop" => wm_ret.stopped \subseteq {wm_ret.timer}

---------------------------------------------------------------------------
(* Properties of the life of the samplers *)

OpenSamplers ==
    { i \in DOMAIN life_call.life.objects : life_call.life.objects[i].open }

\* C40: the environment never builds a sampler while one it built earlier
\* is still open, so at most one sampler is open at any time.
C40_OneSamplerOpen ==
    /\ ~life_call.life.overlap
    /\ Cardinality(OpenSamplers) <= 1

\* a step has replaced a sampler: the earlier one is closed, the new one
\* is the only one open
C40_Witness ==
    /\ life_call.ret.call = "step"
    /\ Len(life_call.life.objects) >= 2
    /\ OpenSamplers = {life_call.life.sampler}
    /\ \E i \in DOMAIN life_call.life.objects :
         i # life_call.life.sampler /\ life_call.life.objects[i].connected

=============================================================================
